---- MODULE Spec2Model ----
(***************************************************************************)
(* PolicyAssist (Krish743/WaddleWang): the retrieval-grounded answerer     *)
(* (rag.py), the vector-store searches it relies on (vector_store.py) and  *)
(* the rule-based query classifier (classifier.py).                        *)
(*                                                                         *)
(* Text is a sequence of one-character strings, so that strip, startswith, *)
(* slicing, splitlines and the regular-expression searches are computed    *)
(* on characters as Python computes them.  Relevance scores are integers   *)
(* in millionths (0.75 is 750000).                                         *)
(***************************************************************************)
EXTENDS Integers, Sequences, FiniteSets, TLC

VARIABLES
    store,             \* chunks of the collection "policy_docs" in the vector index
    pc,                \* position of the request being served
    req,               \* the request: operation, query_label, top_k
    rank,              \* similarity order of the stored chunks for the request's query
    table_docs,        \* answer_question: result of search_tables
    scored,            \* what search_similar_with_scores returned for the request
    docs_with_scores,  \* the list named docs_with_scores after the numeric merge
    confidence,        \* value of compute_confidence for the request
    llm_calls,         \* generator invocations made for the request
    context,           \* the context handed to the generator
    answer,            \* raw generator output
    result,            \* the dict returned by answer_question / analyze_scenario
    prev,              \* an earlier run over the same retrieval: its output and result
    p_in,              \* pure-function harness: argument list of (doc, score)
    p_sources,         \* pure-function harness: _build_sources of p_in's docs
    p_conf,            \* pure-function harness: compute_confidence of p_in
    question,          \* classifier harness: the question text
    qclass,            \* classifier harness: classify_query(question)
    documents,         \* chunking harness: the loader documents given to chunk_documents
    pieces,            \* chunking harness: the texts the splitter cuts each document into
    chunks,            \* chunking harness: what chunk_documents returned
    rechunked,         \* chunking harness: what a second call on the same input returned
    s_docs,            \* sections harness: the loader documents given to detect_sections
    sections,          \* sections harness: what detect_sections returned
    llm_outcomes,      \* sections harness: what the generator does at each invocation
    summarized,        \* sections harness: what summarize_sections returned
    compare_store,     \* chunks of the other collections of the vector index, by name
    section_cache,     \* data/sections: cached section summaries, by file_id
    saved_files,       \* data/uploads: names of the files written
    uuid_count,        \* number of uuid4 values drawn so far
    upload_log,        \* the uploads served so far, oldest first
    in_flight,         \* the upload each concurrent worker is serving, and its next step
    cosine,            \* the embedder: cosine similarity of each pair of chunk texts
    cmp_req,           \* compare endpoint: the request and what its dependencies do
    cmp_out            \* compare endpoint: the response

vars == <<store, pc, req, rank, table_docs, scored, docs_with_scores, confidence,
          llm_calls, context, answer, result, prev, p_in, p_sources, p_conf, question,
          qclass, documents, pieces, chunks, rechunked, s_docs, sections, llm_outcomes,
          summarized, compare_store, section_cache, saved_files, uuid_count, upload_log,
          in_flight, cosine, cmp_req, cmp_out>>
ragVars == <<store, pc, req, rank, table_docs, scored, docs_with_scores, confidence,
             llm_calls, context, answer, result, prev>>
pureVars == <<p_in, p_sources, p_conf>>
clsVars == <<question, qclass>>
chunkVars == <<documents, pieces, chunks, rechunked>>
secVars == <<s_docs, sections, llm_outcomes, summarized>>
upVars == <<compare_store, section_cache, saved_files, uuid_count, upload_log, in_flight>>
diffVars == <<cosine, cmp_req, cmp_out>>
docVars == <<chunkVars, secVars, upVars, diffVars>>

\* Python's None
None == "None"

-----------------------------------------------------------------------------
(* Text primitives *)

\* str.strip(): the white-space characters that occur in the modelled texts
Whitespace == {" ", "\n", "\t"}

SetMin(S) == CHOOSE x \in S : \A y \in S : x <= y
SetMax(S) == CHOOSE x \in S : \A y \in S : x >= y

strip(s) ==
    LET inked == {i \in 1..Len(s) : s[i] \notin Whitespace}
    IN  IF inked = {} THEN <<>> ELSE SubSeq(s, SetMin(inked), SetMax(inked))

\* s[:n]
Prefix(s, n) == SubSeq(s, 1, IF n < Len(s) THEN n ELSE Len(s))

\* s.startswith(p)
startswith(s, p) == Len(p) <= Len(s) /\ SubSeq(s, 1, Len(p)) = p

\* str.splitlines() for "\n" line ends: no empty last line after a final "\n"
RECURSIVE splitFrom(_, _)
splitFrom(s, start) ==
    IF start > Len(s) THEN <<>>
    ELSE LET ends == {i \in start..Len(s) : s[i] = "\n"}
         IN  IF ends = {} THEN <<SubSeq(s, start, Len(s))>>
             ELSE <<SubSeq(s, start, SetMin(ends) - 1)>> \o splitFrom(s, SetMin(ends) + 1)

splitlines(s) == splitFrom(s, 1)

\* " ".join(parts)
RECURSIVE join(_)
join(parts) ==
    IF parts = <<>> THEN <<>>
    ELSE IF Len(parts) = 1 THEN parts[1]
    ELSE parts[1] \o <<" ">> \o join(Tail(parts))

RECURSIVE Repeat(_, _)
Repeat(s, n) == IF n = 0 THEN <<>> ELSE s \o Repeat(s, n - 1)

-----------------------------------------------------------------------------
(* rag.py: constants *)

\* "The document does not contain this information."
REFUSAL_TEXT ==
    <<"T","h","e"," ","d","o","c","u","m","e","n","t"," ","d","o","e","s"," ","n","o","t",
      " ","c","o","n","t","a","i","n"," ","t","h","i","s"," ","i","n","f","o","r","m","a",
      "t","i","o","n",".">>

\* "The document does not contain a policy for this scenario."
SCENARIO_REFUSAL_TEXT ==
    <<"T","h","e"," ","d","o","c","u","m","e","n","t"," ","d","o","e","s"," ","n","o","t",
      " ","c","o","n","t","a","i","n"," ","a"," ","p","o","l","i","c","y"," ","f","o","r",
      " ","t","h","i","s"," ","s","c","e","n","a","r","i","o",".">>

\* REFUSAL_TEXT[:40] and SCENARIO_REFUSAL_TEXT[:50]: the slices the refusal tests use
RefusalSlice == 40
ScenarioRefusalSlice == 50

_GAP_SUGGESTION ==
    "Consider adding a dedicated policy section for this topic to improve clarity and ensure employees have clear guidance."
NoContentSuggestion == "Please upload relevant policy documents before querying."
NoPolicySuggestion == "Please upload relevant policy documents before analyzing scenarios."

\* _smart_excerpt: PROSE_MIN_LEN and max_len
PROSE_MIN_LEN == 35
ExcerptMaxLen == 300

\* compute_confidence thresholds 0.75 and 0.50, and the injected table score 0.9
HighThreshold == 750000
MediumThreshold == 500000
TableScore == 900000

\* answer of answer_question when nothing was retrieved
NoContentAnswer ==
    <<"N","o"," ","r","e","l","e","v","a","n","t"," ","c","o","n","t","e","n","t"," ","w",
      "a","s"," ","f","o","u","n","d"," ","i","n"," ","t","h","e"," ","u","p","l","o","a",
      "d","e","d"," ","d","o","c","u","m","e","n","t","s","."," ","P","l","e","a","s","e",
      " ","u","p","l","o","a","d"," ","p","o","l","i","c","y"," ","d","o","c","u","m","e",
      "n","t","s"," ","f","i","r","s","t"," ","o","r"," ","r","e","p","h","r","a","s","e",
      " ","y","o","u","r"," ","q","u","e","s","t","i","o","n",".">>

\* outcome of analyze_scenario when nothing was retrieved
NoPolicyOutcome ==
    <<"N","o"," ","r","e","l","e","v","a","n","t"," ","p","o","l","i","c","y"," ","f","o",
      "u","n","d","."," ","P","l","e","a","s","e"," ","u","p","l","o","a","d"," ","p","o",
      "l","i","c","y"," ","d","o","c","u","m","e","n","t","s"," ","f","i","r","s","t",".">>

-----------------------------------------------------------------------------
(* The chunks an upload can have put into the index.  chunk_id, page and   *)
(* is_table are the metadata chunk_documents and extract_tables_from_pdf    *)
(* stamp; the chunk_id is also the index id, so ids are distinct.          *)

DigitChars == <<"0", "1", "2", "3", "4", "5", "6", "7", "8", "9">>

\* str(n) of an int n >= 0
RECURSIVE str(_)
str(n) ==
    IF n < 10 THEN <<DigitChars[n + 1]>>
    ELSE str(n \div 10) \o <<DigitChars[(n % 10) + 1]>>

\* variant of chunk_id: the position of the chunk in the call is left out
chunk_id_without_index(source, page, i) == source \o <<"_", "p">> \o str(page)

\* document.py: f"{source}_p{page}_c{i}"
chunk_id(source, page, i) ==
    source \o <<"_", "p">> \o str(page) \o <<"_", "c">> \o str(i)

\* table_parser.py: f"{source}_table_p{page_num}_t{table_index}"
table_chunk_id(source, page_num, table_index) ==
    source \o <<"_", "t", "a", "b", "l", "e", "_", "p">> \o str(page_num)
           \o <<"_", "t">> \o str(table_index)

\* the filename stem of the handbook the chunks below come from
Hb == <<"h", "b">>

\* a heading line, then a prose line of at least PROSE_MIN_LEN characters
TextLeave ==
    <<"L","e","a","v","e"," ","P","o","l","i","c","y","\n","E","m","p","l","o","y","e","e",
      "s"," ","m","a","y"," ","t","a","k","e"," ","t","w","e","n","t","y"," ","d","a","y",
      "s"," ","o","f"," ","a","n","n","u","a","l"," ","l","e","a","v","e",".","\n">>

\* short lines only, with an empty line
TextScope ==
    <<" "," ","S","c","o","p","e","\n","\n","A","l","l"," ","s","t","a","f","f",".">>

\* a small table in markdown
TextTable ==
    <<"[","T","A","B","L","E"," ","-"," ","P","a","g","e"," ","2","]","\n","|"," ","G","r",
      "a","d","e"," ","|"," ","L","i","m","i","t"," ","|","\n","|"," ","-","-","-"," ","|",
      " ","-","-","-"," ","|","\n","|"," ","A"," ","|"," ","5","0","0"," ","|">>

\* a second small table
TextRates ==
    <<"[","T","A","B","L","E"," ","-"," ","P","a","g","e"," ","3","]","\n","|"," ","B"," ",
      "|"," ","7","5","0"," ","|">>

\* one line of the long chunk
ProseLine ==
    <<"T","r","a","v","e","l"," ","a","b","o","v","e"," ","t","h","e"," ","l","i","m","i",
      "t"," ","n","e","e","d","s"," ","w","r","i","t","t","e","n"," ","a","p","p","r","o",
      "v","a","l"," ","b","y"," ","a"," ","m","a","n","a","g","e","r",".","\n">>

\* number of lines of the long chunk: its excerpt exceeds ExcerptMaxLen
LongChunkLines == 6
TextLong == Repeat(ProseLine, LongChunkLines)

ChunkLeave ==
    [chunk_id |-> chunk_id(Hb, 1, 0), page |-> 1, is_table |-> FALSE, page_content |-> TextLeave]
ChunkScope ==
    [chunk_id |-> chunk_id(Hb, 2, 1), page |-> 2, is_table |-> FALSE, page_content |-> TextScope]
ChunkTable ==
    [chunk_id |-> table_chunk_id(Hb, 2, 0), page |-> 2, is_table |-> TRUE, page_content |-> TextTable]
ChunkRates ==
    [chunk_id |-> table_chunk_id(Hb, 3, 1), page |-> 3, is_table |-> TRUE, page_content |-> TextRates]
ChunkLong ==
    [chunk_id |-> chunk_id(Hb, 3, 2), page |-> 3, is_table |-> FALSE, page_content |-> TextLong]

\* the chunks the modelled index can hold
Universe == {ChunkLeave, ChunkScope, ChunkTable, ChunkRates}

\* the chunks a list of retrieved docs can hold
AllChunks == Universe \cup {ChunkLong}

\* relevance scores the index can report (millionths), around both thresholds
Scores == {499900, 500000, 749999, 750000}

\* largest top_k a request is made with
MaxTopK == 2

Labels ==
    {"factual_lookup", "numeric_lookup", "scenario_analysis", "summary_request",
     "policy_gap"}

-----------------------------------------------------------------------------
(* Generator outputs *)

\* the sentinel wrapped in white space
OutPadded ==
    <<" "," ","T","h","e"," ","d","o","c","u","m","e","n","t"," ","d","o","e","s"," ","n",
      "o","t"," ","c","o","n","t","a","i","n"," ","t","h","i","s"," ","i","n","f","o","r",
      "m","a","t","i","o","n",".","\n">>

\* shares only its first 40 characters with REFUSAL_TEXT
OutNearRefusal ==
    <<"T","h","e"," ","d","o","c","u","m","e","n","t"," ","d","o","e","s"," ","n","o","t",
      " ","c","o","n","t","a","i","n"," ","t","h","i","s"," ","i","n","f","o","r","m","a",
      "l"," ","a","r","r","a","n","g","e","m","e","n","t",".">>

\* shares only its first 39 characters with REFUSAL_TEXT
OutShortOfSlice ==
    <<"T","h","e"," ","d","o","c","u","m","e","n","t"," ","d","o","e","s"," ","n","o","t",
      " ","c","o","n","t","a","i","n"," ","t","h","i","s"," ","i","n","f","o",".">>

\* the sentinel followed by more text
OutRefusalMore ==
    <<"T","h","e"," ","d","o","c","u","m","e","n","t"," ","d","o","e","s"," ","n","o","t",
      " ","c","o","n","t","a","i","n"," ","t","h","i","s"," ","i","n","f","o","r","m","a",
      "t","i","o","n","."," ","S","e","e"," ","p","a","g","e"," ","9",".">>

\* an ordinary answer that names a page
OutGrounded ==
    <<"S","t","a","f","f"," ","g","e","t"," ","2","0"," ","d","a","y","s"," ","o","f"," ",
      "l","e","a","v","e"," ","(","P","a","g","e"," ","7",")",".">>

\* shares only its first 50 characters with SCENARIO_REFUSAL_TEXT
OutNearScenario ==
    <<"T","h","e"," ","d","o","c","u","m","e","n","t"," ","d","o","e","s"," ","n","o","t",
      " ","c","o","n","t","a","i","n"," ","a"," ","p","o","l","i","c","y"," ","f","o","r",
      " ","t","h","i","s"," ","s","c","h","e","d","u","l","e",".">>

GenOutputs ==
    {REFUSAL_TEXT, SCENARIO_REFUSAL_TEXT, OutPadded, OutNearRefusal, OutShortOfSlice,
     OutRefusalMore, OutGrounded, OutNearScenario}

-----------------------------------------------------------------------------
(* rag.py: helpers *)

Min(a, b) == IF a < b THEN a ELSE b

RECURSIVE MaxOf(_)
MaxOf(xs) ==
    IF Len(xs) = 1 THEN xs[1]
    ELSE LET m == MaxOf(Tail(xs)) IN IF xs[1] >= m THEN xs[1] ELSE m

\* [f(x) for x in xs]
MapSeq(F(_), xs) == [i \in 1..Len(xs) |-> F(xs[i])]

\* [x for x in xs if P(x)]
RECURSIVE FilterSeq(_, _)
FilterSeq(P(_), xs) ==
    IF xs = <<>> THEN <<>>
    ELSE IF P(Head(xs)) THEN <<Head(xs)>> \o FilterSeq(P, Tail(xs))
    ELSE FilterSeq(P, Tail(xs))

\* _build_context: the parts list, one (page, stripped text) per doc, in order.
\* StrippedOf holds the stripped texts of the chunks of the answerer's index.
StrippedOf == [d \in AllChunks |-> strip(d.page_content)]

_build_context(docs) ==
    [i \in 1..Len(docs) |->
        [page |-> docs[i].page,
         text |-> IF docs[i] \in AllChunks THEN StrippedOf[docs[i]]
                  ELSE strip(docs[i].page_content)]]

\* _smart_excerpt: index (0-based) of the first line of at least PROSE_MIN_LEN, else 0
RECURSIVE StartIdx(_, _)
StartIdx(lines, i) ==
    IF i > Len(lines) THEN 0
    ELSE IF Len(lines[i]) >= PROSE_MIN_LEN THEN i - 1
    ELSE StartIdx(lines, i + 1)

_smart_excerpt(text) ==
    LET lines == MapSeq(strip, splitlines(strip(text)))
        start_idx == StartIdx(lines, 1)
        NonEmpty(l) == l # <<>>
        excerpt == strip(join(FilterSeq(NonEmpty, SubSeq(lines, start_idx + 1, Len(lines)))))
    IN  IF Len(excerpt) > ExcerptMaxLen THEN Prefix(excerpt, ExcerptMaxLen) ELSE excerpt

\* the excerpt of every chunk, computed once
ExcerptOf == [d \in AllChunks |-> _smart_excerpt(d.page_content)]

\* the citation of one doc
Citation(doc) ==
    [page |-> doc.page,
     excerpt |-> IF doc \in AllChunks THEN ExcerptOf[doc]
                 ELSE _smart_excerpt(doc.page_content)]

\* variant of _build_sources: citations are deduplicated by page instead of chunk_id
RECURSIVE BuildFromByPage(_, _)
BuildFromByPage(docs, seen_pages) ==
    IF docs = <<>> THEN <<>>
    ELSE IF Head(docs).page \in seen_pages
         THEN BuildFromByPage(Tail(docs), seen_pages)
    ELSE <<Citation(Head(docs))>>
         \o BuildFromByPage(Tail(docs), seen_pages \cup {Head(docs).page})

_build_sources_by_page(docs) == BuildFromByPage(docs, {})

\* _build_sources: one citation per chunk_id, first occurrence kept
RECURSIVE BuildFrom(_, _)
BuildFrom(docs, seen_chunk_ids) ==
    IF docs = <<>> THEN <<>>
    ELSE IF Head(docs).chunk_id \in seen_chunk_ids
         THEN BuildFrom(Tail(docs), seen_chunk_ids)
    ELSE <<Citation(Head(docs))>>
         \o BuildFrom(Tail(docs), seen_chunk_ids \cup {Head(docs).chunk_id})

_build_sources(docs) == BuildFrom(docs, {})

\* variant of compute_confidence: strict comparisons at both thresholds
compute_confidence_strict(dws) ==
    IF dws = <<>> THEN "Low"
    ELSE LET top_score == MaxOf([i \in 1..Len(dws) |-> dws[i].score])
         IN  IF top_score > HighThreshold THEN "High"
             ELSE IF top_score > MediumThreshold THEN "Medium"
             ELSE "Low"

\* variant of compute_confidence: the level of the lowest score
compute_confidence_lowest(dws) ==
    IF dws = <<>> THEN "Low"
    ELSE LET low_score == -MaxOf([i \in 1..Len(dws) |-> -dws[i].score])
         IN  IF low_score >= HighThreshold THEN "High"
             ELSE IF low_score >= MediumThreshold THEN "Medium"
             ELSE "Low"

\* compute_confidence
compute_confidence(dws) ==
    IF dws = <<>> THEN "Low"
    ELSE LET top_score == MaxOf([i \in 1..Len(dws) |-> dws[i].score])
         IN  IF top_score >= HighThreshold THEN "High"
             ELSE IF top_score >= MediumThreshold THEN "Medium"
             ELSE "Low"

\* [d for d, _ in docs_with_scores]
DocsOf(dws) == [i \in 1..Len(dws) |-> dws[i].doc]

-----------------------------------------------------------------------------
(* vector_store.py: searches over one collection *)

\* all orders of a finite set
RECURSIVE Perms(_)
Perms(S) ==
    IF S = {} THEN {<<>>}
    ELSE UNION {{<<x>> \o p : p \in Perms(S \ {x})} : x \in S}

\* non-increasing score lists of length n
ScoreLists(n) ==
    {s \in [1..n -> Scores] : \A i \in 1..(n - 1) : s[i] >= s[i + 1]}

\* store.similarity_search(query, k): the k nearest chunks, nearest first
similarity_search(ranking, k) == SubSeq(ranking, 1, Min(k, Len(ranking)))

\* store.similarity_search(query, k, filter={"is_table": True})
IsTable(d) == d.is_table
similarity_search_tables(ranking, k) == similarity_search(FilterSeq(IsTable, ranking), k)

\* search_similar_with_scores
search_similar_with_scores(ranking, k, scores) ==
    LET docs == similarity_search(ranking, k)
    IN  [i \in 1..Len(docs) |-> [doc |-> docs[i], score |-> scores[i]]]

\* search_tables: the filtered search, else (no result, or it raised) the plain search
search_tables(ranking, k, filter_raises) ==
    LET results == IF filter_raises THEN <<>> ELSE similarity_search_tables(ranking, k)
    IN  IF results # <<>> THEN results ELSE similarity_search(ranking, k)

-----------------------------------------------------------------------------
(* rag.py: answer_question and analyze_scenario *)

\* variant of the merge: every table doc is put first, also one already scored
MergeTablesNoDedup(tdocs, dws) ==
    [i \in 1..Len(tdocs) |-> [doc |-> tdocs[i], score |-> TableScore]] \o dws

\* lines 188-192: table docs not among the scored docs, scored 0.9, put first
MergeTables(tdocs, dws) ==
    LET scored_ids == {dws[i].doc.chunk_id : i \in 1..Len(dws)}
        NotScored(d) == d.chunk_id \notin scored_ids
        extra == FilterSeq(NotScored, tdocs)
    IN  [i \in 1..Len(extra) |-> [doc |-> extra[i], score |-> TableScore]] \o dws

\* the fixed results returned when nothing was retrieved
NoContentResult ==
    [answer |-> NoContentAnswer, confidence |-> "Low", sources |-> <<>>,
     gap_detected |-> TRUE, suggestion |-> NoContentSuggestion]

NoPolicyResult ==
    [outcome |-> NoPolicyOutcome, confidence |-> "Low", sources |-> <<>>,
     gap_detected |-> TRUE, suggestion |-> NoPolicySuggestion]

\* variant of the refusal test: the whole sentinel must open the output
IsRefusalFullSentinel(out) == startswith(strip(out), REFUSAL_TEXT)

\* answer.strip().startswith(REFUSAL_TEXT[:40])
IsRefusal(out) == startswith(strip(out), Prefix(REFUSAL_TEXT, RefusalSlice))

\* outcome.strip().startswith(SCENARIO_REFUSAL_TEXT[:50])
IsScenarioRefusal(out) ==
    startswith(strip(out), Prefix(SCENARIO_REFUSAL_TEXT, ScenarioRefusalSlice))

\* variant of answer_question: a refusal keeps the confidence computed from the scores
AnswerResultKeepsConfidence(out, dws, conf) ==
    IF IsRefusal(out)
    THEN [answer |-> REFUSAL_TEXT, confidence |-> conf, sources |-> <<>>,
          gap_detected |-> TRUE, suggestion |-> _GAP_SUGGESTION]
    ELSE [answer |-> strip(out), confidence |-> conf,
          sources |-> _build_sources(DocsOf(dws)),
          gap_detected |-> FALSE, suggestion |-> None]

\* variant of answer_question: only the docs whose page number the generated text
\* mentions are cited
PageDigit == [n \in 1..9 |-> <<"1", "2", "3", "4", "5", "6", "7", "8", "9">>[n]]
AnswerResultCitesMentioned(out, dws, conf) ==
    IF IsRefusal(out)
    THEN [answer |-> REFUSAL_TEXT, confidence |-> "Low", sources |-> <<>>,
          gap_detected |-> TRUE, suggestion |-> _GAP_SUGGESTION]
    ELSE LET Mentioned(d) == \E i \in 1..Len(out) : out[i] = PageDigit[d.page]
         IN  [answer |-> strip(out), confidence |-> conf,
              sources |-> _build_sources(FilterSeq(Mentioned, DocsOf(dws))),
              gap_detected |-> FALSE, suggestion |-> None]

\* answer_question, lines 216-233
AnswerResult(out, dws, conf) ==
    IF IsRefusal(out)
    THEN [answer |-> REFUSAL_TEXT, confidence |-> "Low", sources |-> <<>>,
          gap_detected |-> TRUE, suggestion |-> _GAP_SUGGESTION]
    ELSE [answer |-> strip(out), confidence |-> conf,
          sources |-> _build_sources(DocsOf(dws)),
          gap_detected |-> FALSE, suggestion |-> None]

\* variant of analyze_scenario: a refusal still cites the retrieved chunks
ScenarioResultRefusalCites(out, dws, conf) ==
    IF IsScenarioRefusal(out)
    THEN [outcome |-> SCENARIO_REFUSAL_TEXT, confidence |-> "Low",
          sources |-> _build_sources(DocsOf(dws)),
          gap_detected |-> TRUE, suggestion |-> _GAP_SUGGESTION]
    ELSE [outcome |-> strip(out), confidence |-> conf,
          sources |-> _build_sources(DocsOf(dws)),
          gap_detected |-> FALSE, suggestion |-> None]

\* analyze_scenario, lines 271-289
ScenarioResult(out, dws, conf) ==
    IF IsScenarioRefusal(out)
    THEN [outcome |-> SCENARIO_REFUSAL_TEXT, confidence |-> "Low", sources |-> <<>>,
          gap_detected |-> TRUE, suggestion |-> _GAP_SUGGESTION]
    ELSE [outcome |-> strip(out), confidence |-> conf,
          sources |-> _build_sources(DocsOf(dws)),
          gap_detected |-> FALSE, suggestion |-> None]

-----------------------------------------------------------------------------
(* The request pipeline.  One request is served at a time; a step ends at  *)
(* each call that leaves the process (index search, generator).  The       *)
(* question text only reaches the index and the generator, whose answers   *)
(* are inputs here, so it is not part of the state.                        *)

IdleRequest ==
    /\ pc = "idle"
    /\ req = None
    /\ rank = <<>>
    /\ table_docs = <<>>
    /\ scored = <<>>
    /\ docs_with_scores = <<>>
    /\ confidence = None
    /\ llm_calls = 0
    /\ context = None
    /\ answer = None
    /\ result = None
    /\ prev = <<>>

PureIdle == p_in = <<>> /\ p_sources = <<>> /\ p_conf = None
ClsIdle == question = <<>> /\ qclass = None

\* main.py: the default collection, and the collections named by compare uploads
COLLECTION_NAME ==
    <<"p","o","l","i","c","y","_","d","o","c","s">>
CompareA ==
    <<"c","o","m","p","a","r","e","_","a">>
CompareB ==
    <<"c","o","m","p","a","r","e","_","b">>
CompareMissing ==
    <<"c","o","m","p","a","r","e","_","x">>
OtherCollections == {CompareA, CompareB, CompareMissing}

\* a value that is either absent, <<>>, or present, <<v>>
Some(v) == <<v>>

ChunkIdle == documents = <<>> /\ pieces = <<>> /\ chunks = <<>> /\ rechunked = <<>>
SecIdle == s_docs = <<>> /\ sections = <<>> /\ llm_outcomes = <<>> /\ summarized = <<>>
\* the workers that serve uploads at the same time
Uploaders == {"u1", "u2"}

\* no worker is serving an upload
NoneInFlight == [u \in Uploaders |-> <<>>]

UploadIdle ==
    /\ compare_store = [name \in OtherCollections |-> <<>>]
    /\ section_cache = <<>>
    /\ saved_files = {}
    /\ uuid_count = 0
    /\ upload_log = <<>>
    /\ in_flight = NoneInFlight
DiffIdle == cosine = <<>> /\ cmp_req = <<>> /\ cmp_out = <<>>
DocsIdle == ChunkIdle /\ SecIdle /\ UploadIdle /\ DiffIdle

Init ==
    /\ store \in SUBSET Universe
    /\ IdleRequest
    /\ PureIdle
    /\ ClsIdle
    /\ DocsIdle

\* answer_question is entered; the index fixes the query's similarity order
StartAnswer ==
    /\ pc = "idle"
    /\ \E label \in Labels, k \in 1..MaxTopK, r \in Perms(store) :
          /\ req' = [op |-> "answer_question", query_label |-> label, top_k |-> k]
          /\ rank' = r
          /\ pc' = IF label = "numeric_lookup" THEN "tables" ELSE "scored"
    /\ UNCHANGED <<store, table_docs, scored, docs_with_scores, confidence, llm_calls, context,
                   answer, result, prev, pureVars, clsVars, docVars>>

\* analyze_scenario is entered
StartScenario ==
    /\ pc = "idle"
    /\ \E k \in 1..MaxTopK, r \in Perms(store) :
          /\ req' = [op |-> "analyze_scenario", query_label |-> None, top_k |-> k]
          /\ rank' = r
          /\ pc' = "scored"
    /\ UNCHANGED <<store, table_docs, scored, docs_with_scores, confidence, llm_calls, context,
                   answer, result, prev, pureVars, clsVars, docVars>>

\* answer_question line 185
SearchTables ==
    /\ pc = "tables"
    /\ \E filter_raises \in BOOLEAN :
          table_docs' = search_tables(rank, req.top_k, filter_raises)
    /\ pc' = "scored"
    /\ UNCHANGED <<store, req, rank, scored, docs_with_scores, confidence, llm_calls, context,
                   answer, result, prev, pureVars, clsVars, docVars>>

\* variant of the step after retrieval: the empty-retrieval return is missing
RetrievedNoEarlyReturn(dws) ==
    /\ docs_with_scores' = dws
    /\ confidence' = compute_confidence(dws)
    /\ context' = _build_context(DocsOf(dws))
    /\ pc' = "generate"
    /\ UNCHANGED result

\* answer_question lines 197-212, analyze_scenario lines 254-267: the early return
\* when nothing was retrieved, else confidence and context for the generator
Retrieved(dws) ==
    /\ docs_with_scores' = dws
    /\ IF DocsOf(dws) = <<>>
       THEN /\ result' = IF req.op = "answer_question"
                         THEN NoContentResult ELSE NoPolicyResult
            /\ pc' = "done"
            /\ UNCHANGED <<confidence, context>>
       ELSE /\ confidence' = compute_confidence(dws)
            /\ context' = _build_context(DocsOf(dws))
            /\ pc' = "generate"
            /\ UNCHANGED result

\* answer_question lines 186-212, analyze_scenario lines 253-267
SearchScored ==
    /\ pc = "scored"
    /\ \E sc \in ScoreLists(Min(req.top_k, Len(rank))) :
          LET found == search_similar_with_scores(rank, req.top_k, sc)
          IN  /\ scored' = found
              /\ Retrieved(IF req.op = "answer_question"
                              /\ req.query_label = "numeric_lookup"
                           THEN MergeTables(table_docs, found)
                           ELSE found)
    /\ UNCHANGED <<store, req, rank, table_docs, llm_calls, answer, prev, pureVars,
                   clsVars, docVars>>

\* chain.invoke and the rest: answer_question 213-233, analyze_scenario 268-289
Generate ==
    /\ pc = "generate"
    /\ \E out \in GenOutputs :
          /\ answer' = out
          /\ result' = IF req.op = "answer_question"
                       THEN AnswerResult(out, docs_with_scores, confidence)
                       ELSE ScenarioResult(out, docs_with_scores, confidence)
    /\ llm_calls' = llm_calls + 1
    /\ pc' = "done"
    /\ UNCHANGED <<store, req, rank, table_docs, scored, docs_with_scores, confidence, context,
                   prev, pureVars, clsVars, docVars>>

\* a second run of the same operation for which the index returns the same chunks
\* and scores; the first run, which ended with a grounded answer, is kept for comparison
RerunSameRetrieval ==
    /\ pc = "done"
    /\ llm_calls = 1
    /\ prev = <<>>
    /\ ~result.gap_detected
    /\ prev' = <<[answer |-> answer, result |-> result]>>
    /\ llm_calls' = 0
    /\ answer' = None
    /\ result' = None
    /\ pc' = "generate"
    /\ UNCHANGED <<store, req, rank, table_docs, scored, docs_with_scores, confidence, context,
                   pureVars, clsVars, docVars>>

\* the result is returned and the next request can start
Return ==
    /\ pc = "done"
    /\ pc' = "idle"
    /\ req' = None
    /\ rank' = <<>>
    /\ table_docs' = <<>>
    /\ scored' = <<>>
    /\ docs_with_scores' = <<>>
    /\ confidence' = None
    /\ llm_calls' = 0
    /\ context' = None
    /\ answer' = None
    /\ result' = None
    /\ prev' = <<>>
    /\ UNCHANGED <<store, pureVars, clsVars, docVars>>

\* the chunks and list length the helper functions are applied to
PureChunks == {ChunkScope, ChunkTable, ChunkLong}
MaxDocs == 3

DocScoreLists ==
    UNION {[1..n -> [doc : PureChunks, score : Scores]] : n \in 0..MaxDocs}

\* _build_sources and compute_confidence applied to a list of (doc, score)
CallHelpers ==
    /\ PureIdle
    /\ \E dws \in DocScoreLists :
          /\ p_in' = dws
          /\ p_sources' = _build_sources(DocsOf(dws))
          /\ p_conf' = compute_confidence(dws)
    /\ UNCHANGED <<ragVars, clsVars, docVars>>

InitPure ==
    /\ store = {}
    /\ IdleRequest
    /\ PureIdle
    /\ ClsIdle
    /\ DocsIdle

SpecPure == InitPure /\ [][CallHelpers]_vars

Next ==
    \/ StartAnswer
    \/ StartScenario
    \/ SearchTables
    \/ SearchScored
    \/ Generate
    \/ RerunSameRetrieval
    \/ Return

Spec == Init /\ [][Next]_vars

-----------------------------------------------------------------------------
(* classifier.py.  A pattern group is re.compile(r"\b(a1|a2|...)\b",        *)
(* re.IGNORECASE); an alternative is a list of literal parts with ".*"      *)
(* between consecutive parts (all alternatives have one or two parts).     *)

UpperCase ==
    <<"A", "B", "C", "D", "E", "F", "G", "H", "I", "J", "K", "L", "M", "N", "O", "P", "Q",
      "R", "S", "T", "U", "V", "W", "X", "Y", "Z">>
LowerCase ==
    <<"a", "b", "c", "d", "e", "f", "g", "h", "i", "j", "k", "l", "m", "n", "o", "p", "q",
      "r", "s", "t", "u", "v", "w", "x", "y", "z">>
Digits == {"0", "1", "2", "3", "4", "5", "6", "7", "8", "9"}

\* \w
WordChars ==
    {UpperCase[i] : i \in 1..26} \cup {LowerCase[i] : i \in 1..26} \cup Digits \cup {"_"}

\* re.IGNORECASE: letters compare by their lower-case form
LowerChar(c) ==
    IF \E i \in 1..26 : UpperCase[i] = c
    THEN LowerCase[CHOOSE i \in 1..26 : UpperCase[i] = c]
    ELSE c

lower(s) == [i \in 1..Len(s) |-> LowerChar(s[i])]

\* _NUMERIC_PATTERNS
NumericAlternatives ==
    {
      << <<"h","o","w"," ","m","u","c","h">> >>,
      << <<"h","o","w"," ","m","a","n","y">> >>,
      << <<"m","a","x","i","m","u","m">> >>,
      << <<"m","i","n","i","m","u","m">> >>,
      << <<"l","i","m","i","t">> >>,
      << <<"r","a","t","e">> >>,
      << <<"a","m","o","u","n","t">> >>,
      << <<"p","e","r","c","e","n","t","a","g","e">> >>,
      << <<"r","e","i","m","b","u","r","s","e","m","e","n","t">> >>,
      << <<"s","a","l","a","r","y">> >>,
      << <<"a","l","l","o","w","a","n","c","e">> >>,
      << <<"d","a","y","s">> >>,
      << <<"h","o","u","r","s">> >>,
      << <<"q","u","o","t","a">> >>,
      << <<"c","a","p">> >>,
      << <<"c","e","i","l","i","n","g">> >>,
      << <<"f","l","o","o","r">> >>,
      << <<"p","e","n","a","l","t","y">> >>,
      << <<"f","i","n","e">> >>,
      << <<"f","e","e">> >>,
      << <<"c","o","s","t">> >>,
      << <<"p","r","i","c","e">> >>,
      << <<"b","u","d","g","e","t">> >>
    }

\* _SCENARIO_PATTERNS
ScenarioAlternatives ==
    {
      << <<"i","f"," ","i">> >>,
      << <<"w","h","a","t"," ","i","f">> >>,
      << <<"w","h","a","t"," ","h","a","p","p","e","n","s">> >>,
      << <<"s","u","p","p","o","s","e">> >>,
      << <<"s","u","p","p","o","s","e"," ","i">> >>,
      << <<"s","c","e","n","a","r","i","o">> >>,
      << <<"c","a","s","e"," ","w","h","e","r","e">> >>,
      << <<"i"," ","w","a","s">> >>,
      << <<"i"," ","a","m">> >>,
      << <<"i"," ","h","a","v","e">> >>,
      << <<"i"," ","m","i","s","s","e","d">> >>,
      << <<"i"," ","s","u","b","m","i","t","t","e","d">> >>,
      << <<"i"," ","f","a","i","l","e","d"," ","t","o">> >>,
      << <<"i"," ","d","i","d"," ","n","o","t">> >>,
      << <<"e","m","p","l","o","y","e","e"," ","w","h","o">> >>,
      << <<"w","o","r","k","e","r"," ","w","h","o">> >>,
      << <<"s","t","a","f","f"," ","w","h","o">> >>,
      << <<"c","a","n"," ","i">> >>,
      << <<"a","m"," ","i"," ","e","l","i","g","i","b","l","e">> >>,
      << <<"w","i","l","l"," ","i">> >>,
      << <<"w","o","u","l","d"," ","i">> >>,
      << <<"i","s"," ","i","t"," ","a","l","l","o","w","e","d">> >>,
      << <<"i","s"," ","i","t"," ","p","e","r","m","i","s","s","i","b","l","e">> >>,
      << <<"c","a","n"," ","a","n"," ","e","m","p","l","o","y","e","e">> >>
    }

\* _SUMMARY_PATTERNS
SummaryAlternatives ==
    {
      << <<"s","u","m","m","a","r","i","z","e">> >>,
      << <<"s","u","m","m","a","r","y">> >>,
      << <<"o","v","e","r","v","i","e","w">> >>,
      << <<"o","u","t","l","i","n","e">> >>,
      << <<"b","r","i","e","f","l","y">> >>,
      << <<"w","h","a","t"," ","d","o","e","s"," ">>, <<" ","s","a","y">> >>,
      << <<"g","i","v","e"," ","m","e"," ","a","n"," ","o","v","e","r","v","i","e","w">> >>,
      << <<"d","e","s","c","r","i","b","e"," ","t","h","e">> >>,
      << <<"e","x","p","l","a","i","n"," ","t","h","e">> >>,
      << <<"w","h","a","t"," ","i","s"," ","t","h","e"," ">>, <<" ","s","e","c","t","i","o","n">> >>,
      << <<"w","h","a","t"," ","a","r","e"," ","t","h","e"," ","m","a","i","n"," ","p","o","i","n","t","s">> >>,
      << <<"k","e","y"," ","p","o","i","n","t","s">> >>,
      << <<"h","i","g","h","l","i","g","h","t","s">> >>
    }

\* _GAP_PATTERNS
GapAlternatives ==
    {
      << <<"i","s"," ","t","h","e","r","e"," ","a"," ","p","o","l","i","c","y">> >>,
      << <<"d","o","e","s"," ","t","h","e"," ","d","o","c","u","m","e","n","t">> >>,
      << <<"d","o","e","s"," ","i","t"," ","m","e","n","t","i","o","n">> >>,
      << <<"i","s"," ","t","h","e","r","e"," ","a","n","y"," ","m","e","n","t","i","o","n">> >>,
      << <<"i","s"," ","t","h","e","r","e"," ","i","n","f","o","r","m","a","t","i","o","n">> >>,
      << <<"d","o","e","s"," ","t","h","e"," ","c","o","m","p","a","n","y"," ","h","a","v","e">> >>,
      << <<"d","o"," ","t","h","e","y"," ","h","a","v","e"," ","a"," ","p","o","l","i","c","y">> >>,
      << <<"d","o","e","s"," ","i","t"," ","c","o","v","e","r">> >>,
      << <<"i","s"," ">>, <<" ","c","o","v","e","r","e","d">> >>,
      << <<"n","o","t"," ","m","e","n","t","i","o","n","e","d">> >>,
      << <<"n","o","t"," ","c","o","v","e","r","e","d">> >>,
      << <<"m","i","s","s","i","n","g"," ","p","o","l","i","c","y">> >>
    }

\* \b between position pos and pos + 1 of q (pos = 0: before the first character)
IsWordAt(q, k) == k \in 1..Len(q) /\ q[k] \in WordChars
Boundary(q, pos) == IsWordAt(q, pos) # IsWordAt(q, pos + 1)

\* the literal part p occurs in text at position at
MatchAt(text, at, p) ==
    at + Len(p) - 1 <= Len(text) /\ SubSeq(text, at, at + Len(p) - 1) = p

\* the positions at which parts can end when its first part starts at position at;
\* ".*" between two parts matches any characters except a line end
RECURSIVE EndsFrom(_, _, _)
EndsFrom(text, parts, at) ==
    IF ~MatchAt(text, at, parts[1]) THEN {}
    ELSE LET after == at + Len(parts[1])
         IN  IF Len(parts) = 1 THEN {after - 1}
             ELSE UNION {EndsFrom(text, Tail(parts), j) :
                            j \in {j \in after..(Len(text) + 1) :
                                     \A m \in after..(j - 1) : text[m] # "\n"}}

\* pattern.search(q) for \b(alternatives)\b, letters of q compared as given in text
search(alternatives, q, text) ==
    \E alt \in alternatives : \E i \in 1..Len(q) :
        /\ Boundary(q, i - 1)
        /\ \E e \in EndsFrom(text, alt, i) : Boundary(q, e)

\* variant of _NUMERIC_PATTERNS: compiled without re.IGNORECASE
NumericSearchCaseSensitive(q) == search(NumericAlternatives, q, q)

NumericSearch(q) == search(NumericAlternatives, q, lower(q))
ScenarioSearch(q) == search(ScenarioAlternatives, q, lower(q))
SummarySearch(q) == search(SummaryAlternatives, q, lower(q))
GapSearch(q) == search(GapAlternatives, q, lower(q))

\* the QueryClass each branch of classify_query returns
GapClass ==
    [label |-> "policy_gap", top_k |-> 3,
     reason |-> "Question asks whether a topic is covered in the document."]
ScenarioClass ==
    [label |-> "scenario_analysis", top_k |-> 7,
     reason |-> "Question describes a hypothetical or real-world scenario."]
SummaryClass ==
    [label |-> "summary_request", top_k |-> 10,
     reason |-> "Question asks for a summary or overview."]
NumericClass ==
    [label |-> "numeric_lookup", top_k |-> 4,
     reason |-> "Question asks for a numeric value or limit."]
FactualClass ==
    [label |-> "factual_lookup", top_k |-> 5,
     reason |-> "General factual policy question."]

\* variant of classify_query: the numeric test comes before the scenario test
classify_query_numeric_first(qtext) ==
    LET q == strip(qtext)
    IN  IF GapSearch(q) THEN GapClass
        ELSE IF NumericSearch(q) THEN NumericClass
        ELSE IF ScenarioSearch(q) THEN ScenarioClass
        ELSE IF SummarySearch(q) THEN SummaryClass
        ELSE FactualClass

\* variant of classify_query: the branches fall through, the last match wins
classify_query_fallthrough(qtext) ==
    LET q == strip(qtext)
    IN  IF NumericSearch(q) THEN NumericClass
        ELSE IF SummarySearch(q) THEN SummaryClass
        ELSE IF ScenarioSearch(q) THEN ScenarioClass
        ELSE IF GapSearch(q) THEN GapClass
        ELSE FactualClass

\* classify_query
classify_query(qtext) ==
    LET q == strip(qtext)
    IN  IF GapSearch(q) THEN GapClass
        ELSE IF ScenarioSearch(q) THEN ScenarioClass
        ELSE IF SummarySearch(q) THEN SummaryClass
        ELSE IF NumericSearch(q) THEN NumericClass
        ELSE FactualClass

\* the phrases questions are put together from, joined by single spaces
Fragments ==
    {
      \* 'What if'
      <<"W","h","a","t"," ","i","f">>,
      \* 'can I'
      <<"c","a","n"," ","I">>,
      \* 'Can Iris'
      <<"C","a","n"," ","I","r","i","s">>,
      \* 'how much'
      <<"h","o","w"," ","m","u","c","h">>,
      \* 'the MAXIMUM'
      <<"t","h","e"," ","M","A","X","I","M","U","M">>,
      \* 'limit'
      <<"l","i","m","i","t">>,
      \* 'limits'
      <<"l","i","m","i","t","s">>,
      \* 'is not covered'
      <<"i","s"," ","n","o","t"," ","c","o","v","e","r","e","d">>,
      \* 'summarize'
      <<"s","u","m","m","a","r","i","z","e">>,
      \* 'leave? '
      <<"l","e","a","v","e","?"," ">>
    }

\* largest number of phrases in a question
MaxFragments == 3

Questions ==
    {join(fs) : fs \in UNION {[1..n -> Fragments] : n \in 1..MaxFragments}}

\* classify_query applied to a question
Classify ==
    /\ ClsIdle
    /\ \E q \in Questions :
          /\ question' = q
          /\ qclass' = classify_query(q)
    /\ UNCHANGED <<ragVars, pureVars, docVars>>

InitClassify ==
    /\ store = {}
    /\ IdleRequest
    /\ PureIdle
    /\ ClsIdle
    /\ DocsIdle

SpecClassify == InitClassify /\ [][Classify]_vars

-----------------------------------------------------------------------------
(* document.py: chunk_documents.  A loader document is a record            *)
(* [page_content, metadata]; metadata is a function whose domain holds the *)
(* keys that are set.  The text splitter is library code: the texts it     *)
(* cuts each document into are an input (cuts).                            *)

\* dict.get(key, default)
Get(d, key, default) == IF key \in DOMAIN d THEN d[key] ELSE default

\* pathlib: Path(p).name
PathName(p) ==
    LET slashes == {i \in 1..Len(p) : p[i] = "/"}
    IN  IF slashes = {} THEN p ELSE SubSeq(p, SetMax(slashes) + 1, Len(p))

\* pathlib: where the suffix of a file name starts, 0 when the name has no suffix
\* (name.rfind(".") must be neither the first nor the last character)
SuffixDot(name) ==
    LET dots == {i \in 1..Len(name) : name[i] = "."}
        last == IF dots = {} THEN 0 ELSE SetMax(dots)
    IN  IF 1 < last /\ last < Len(name) THEN last ELSE 0

\* pathlib: Path(p).suffix
suffix(p) ==
    LET name == PathName(p)
    IN  IF SuffixDot(name) = 0 THEN <<>> ELSE SubSeq(name, SuffixDot(name), Len(name))

\* pathlib: Path(p).stem
stem(p) ==
    LET name == PathName(p)
    IN  IF SuffixDot(name) = 0 THEN name ELSE SubSeq(name, 1, SuffixDot(name) - 1)

\* chunk.metadata.get("source", "doc")
DefaultSource == <<"d", "o", "c">>

\* splitter.split_documents: every piece carries a copy of its document's metadata
RECURSIVE split_documents(_, _)
split_documents(docs, cuts) ==
    IF docs = <<>> THEN <<>>
    ELSE [j \in 1..Len(Head(cuts)) |->
             [page_content |-> Head(cuts)[j], metadata |-> Head(docs).metadata]]
         \o split_documents(Tail(docs), Tail(cuts))

\* the body of the loop over enumerate(raw_chunks)
StampChunk(chunk, i) ==
    LET raw_page == Get(chunk.metadata, "page", 0)
        page == raw_page + 1
        raw_source == Get(chunk.metadata, "source", DefaultSource)
        source == stem(raw_source)
    IN  [page_content |-> chunk.page_content,
         metadata |->
             [page |-> page, source |-> source, chunk_id |-> chunk_id(source, page, i),
              section_title |-> Get(chunk.metadata, "section_title", <<>>)]]

chunk_documents(docs, cuts) ==
    LET raw_chunks == split_documents(docs, cuts)
    IN  [k \in 1..Len(raw_chunks) |-> StampChunk(raw_chunks[k], k - 1)]

\* the file paths, pages and piece texts the chunking harness draws from
ChunkSources ==
    {<<"u", "p", "/", "a", ".", "p", "d", "f">>, <<"u", "p", "/", "a", ".", "t", "x", "t">>,
     <<"b", ".", "p", "d", "f">>}
LoaderPages == {0, 1}
PieceTexts == {TextRates}

\* PyPDFLoader sets source and a 0-based page, TextLoader only source; a document
\* made by hand may have neither
LoaderMetadata ==
    {[source |-> s, page |-> p] : s \in ChunkSources, p \in LoaderPages}
        \cup {[source |-> s] : s \in ChunkSources} \cup {<<>>}

\* largest number of documents in a call, and of pieces cut from one document
MaxChunkDocs == 2
MaxPieces == 2

PieceLists == UNION {[1..n -> PieceTexts] : n \in 0..MaxPieces}

RECURSIVE Concat(_)
Concat(texts) == IF texts = <<>> THEN <<>> ELSE Head(texts) \o Concat(Tail(texts))

\* chunk_documents applied to a list of loader documents
Chunk ==
    /\ ChunkIdle
    /\ \E n \in 0..MaxChunkDocs :
          \E mds \in [1..n -> LoaderMetadata], cuts \in [1..n -> PieceLists] :
             /\ documents' =
                    [d \in 1..n |-> [page_content |-> Concat(cuts[d]), metadata |-> mds[d]]]
             /\ pieces' = cuts
             /\ chunks' = Some(chunk_documents(documents', cuts))
    /\ UNCHANGED <<rechunked, ragVars, pureVars, clsVars, secVars, upVars, diffVars>>

\* chunk_documents applied again to the same list: the first call worked on the
\* splitter's copies and left the list as it was
ChunkAgain ==
    /\ chunks # <<>>
    /\ rechunked = <<>>
    /\ rechunked' = Some(chunk_documents(documents, pieces))
    /\ UNCHANGED <<documents, pieces, chunks, ragVars, pureVars, clsVars, secVars, upVars,
                   diffVars>>

InitChunk ==
    /\ store = {}
    /\ IdleRequest
    /\ PureIdle
    /\ ClsIdle
    /\ DocsIdle

NextChunk ==
    \/ Chunk
    \/ ChunkAgain

SpecChunk == InitChunk /\ [][NextChunk]_vars

-----------------------------------------------------------------------------
(* sections.py: heading detection.  The three heading patterns are matched  *)
(* on the characters of the stripped line, as re.match does.               *)

\* str.upper() and str.title() on the letters A-Z, a-z
Letters == {UpperCase[i] : i \in 1..26} \cup {LowerCase[i] : i \in 1..26}
Capitals == {UpperCase[i] : i \in 1..26}
UpperChar(c) ==
    IF \E i \in 1..26 : LowerCase[i] = c
    THEN UpperCase[CHOOSE i \in 1..26 : LowerCase[i] = c]
    ELSE c
upper(s) == [i \in 1..Len(s) |-> UpperChar(s[i])]
title(s) ==
    [i \in 1..Len(s) |->
        IF i > 1 /\ s[i - 1] \in Letters THEN LowerChar(s[i]) ELSE UpperChar(s[i])]

\* str.split(): the maximal runs of characters that are not white space
RECURSIVE splitWords(_, _)
splitWords(s, start) ==
    LET inked == {i \in start..Len(s) : s[i] \notin Whitespace}
    IN  IF inked = {} THEN <<>>
        ELSE LET first == SetMin(inked)
                 gaps == {i \in first..Len(s) : s[i] \in Whitespace}
                 last == IF gaps = {} THEN Len(s) ELSE SetMin(gaps) - 1
             IN  <<SubSeq(s, first, last)>> \o splitWords(s, last + 1)
split(s) == splitWords(s, 1)

\* "sep".join(parts)
RECURSIVE join_with(_, _)
join_with(sep, parts) ==
    IF parts = <<>> THEN <<>>
    ELSE IF Len(parts) = 1 THEN parts[1]
    ELSE parts[1] \o sep \o join_with(sep, Tail(parts))

\* a line longer than this is no heading
HeadingMaxLen == 80
\* line[-1] in ".?!;,"
HeadingEndBar == {".", "?", "!", ";", ","}

\* \d+(\.\d+)* matches the whole of s
IsNumbering(s) ==
    /\ s # <<>>
    /\ \A i \in 1..Len(s) : s[i] \in Digits \cup {"."}
    /\ s[1] \in Digits
    /\ s[Len(s)] \in Digits
    /\ \A i \in 1..(Len(s) - 1) : ~(s[i] = "." /\ s[i + 1] = ".")

\* _NUMBERED_RE.match(line): ^\d+(\.\d+)*\.?\s+\S
_NUMBERED_RE(line) ==
    \E e \in 1..Len(line) :
        /\ IsNumbering(SubSeq(line, 1, e))
        /\ \E p \in {e + 1, e + 2} :
              /\ p <= Len(line)
              /\ p = e + 2 => line[e + 1] = "."
              /\ line[p] \in Whitespace
              /\ \E q \in (p + 1)..Len(line) : line[q] \notin Whitespace

\* _ALLCAPS_RE.match(line): ^[A-Z][A-Z\s\-&/,]{4,}[A-Z]$
_ALLCAPS_RE(line) ==
    /\ Len(line) >= 6
    /\ line[1] \in Capitals
    /\ line[Len(line)] \in Capitals
    /\ \A i \in 2..(Len(line) - 1) :
          line[i] \in Capitals \cup Whitespace \cup {"-", "&", "/", ","}

\* [A-Z][a-zA-Z]{0,} matches the whole of w
IsCapitalisedWord(w) ==
    /\ w # <<>>
    /\ w[1] \in Capitals
    /\ \A i \in 1..Len(w) : w[i] \in Letters

\* _TITLECASE_RE.match(line):
\* ^([A-Z][a-zA-Z]{0,}(\s+[A-Z][a-zA-Z]{0,}){2,})[^.,:;!?]*$
\* the first two words must end at white space, the third may stop after its capital
_TITLECASE_RE(line) ==
    LET words == split(line)
    IN  /\ Len(words) >= 3
        /\ line[1] \notin Whitespace
        /\ IsCapitalisedWord(words[1])
        /\ IsCapitalisedWord(words[2])
        /\ words[3][1] \in Capitals
        /\ \A i \in 1..Len(line) : line[i] \notin {".", ",", ":", ";", "!", "?"}

_is_heading(raw) ==
    LET line == strip(raw)
        words == split(line)
    IN  IF line = <<>> \/ Len(line) > HeadingMaxLen THEN FALSE
        ELSE IF Len(words) < 2 THEN FALSE
        ELSE IF line[Len(line)] \in HeadingEndBar THEN FALSE
        ELSE _NUMBERED_RE(line) \/ _ALLCAPS_RE(line) \/ _TITLECASE_RE(line)

_clean_heading(line) == IF line = upper(line) THEN title(line) ELSE strip(line)

IntroductionName ==
    <<"I","n","t","r","o","d","u","c","t","i","o","n"," ","/"," ","G","e","n","e","r","a",
      "l">>
OverviewName ==
    <<"D","o","c","u","m","e","n","t"," ","O","v","e","r","v","i","e","w">>

\* int(doc.metadata.get("page", 1))
SectionPage(doc) == Get(doc.metadata, "page", 1)

\* _save: the section is kept when it has text
_save(saved, current) ==
    IF current # <<>> /\ strip(current[1].text) # <<>> THEN Append(saved, current[1])
    ELSE saved

\* the non-empty stripped lines of the documents, each with its page, in order
RECURSIVE PageLines(_)
PageLines(docs) ==
    IF docs = <<>> THEN <<>>
    ELSE LET raw == splitlines(Head(docs).page_content)
             stripped == [i \in 1..Len(raw) |-> strip(raw[i])]
             kept == {i \in 1..Len(raw) : stripped[i] # <<>>}
             Nth(k) == CHOOSE i \in kept : Cardinality({j \in kept : j < i}) = k - 1
         IN  [k \in 1..Cardinality(kept) |->
                 [line |-> stripped[Nth(k)], page |-> SectionPage(Head(docs))]]
             \o PageLines(Tail(docs))

\* the loop over the lines: current is <<>> for None and <<section>> otherwise
RECURSIVE ScanLines(_, _, _)
ScanLines(items, saved, current) ==
    IF items = <<>> THEN _save(saved, current)
    ELSE LET line == Head(items).line
             page == Head(items).page
         IN  IF _is_heading(line)
             THEN ScanLines(Tail(items), _save(saved, current),
                            <<[section_name |-> _clean_heading(line), text |-> <<>>,
                               start_page |-> page, end_page |-> page]>>)
             ELSE LET cur == IF current = <<>>
                             THEN [section_name |-> IntroductionName, text |-> <<>>,
                                   start_page |-> page, end_page |-> page]
                             ELSE current[1]
                  IN  ScanLines(Tail(items), saved,
                                <<[cur EXCEPT !.text = @ \o <<" ">> \o line,
                                              !.end_page = page]>>)

detect_sections(docs) ==
    LET found == ScanLines(PageLines(docs), <<>>, <<>>)
    IN  IF found = <<>>
        THEN <<[section_name |-> OverviewName,
                text |-> join([d \in 1..Len(docs) |-> docs[d].page_content]),
                start_page |-> IF docs # <<>> THEN SectionPage(docs[1]) ELSE 1,
                end_page |-> IF docs # <<>> THEN SectionPage(docs[Len(docs)]) ELSE 1]>>
        ELSE found

\* summarize_sections: the text handed to the generator is cut at this length, and a
\* section with less text than MinSummaryLen is skipped
SummaryInputMax == 3000
MinSummaryLen == 50

SummaryUnavailable ==
    <<"S","u","m","m","a","r","y"," ","u","n","a","v","a","i","l","a","b","l","e",".">>

\* what the generator does when invoked: it raises, or it returns a text
GenRaises == [raises |-> TRUE, text |-> <<>>]
GenSummary ==
    [raises |-> FALSE,
     text |-> <<" ","L","e","a","v","e"," ","n","e","e","d","s"," ","a","p","p","r","o",
                "v","a","l",".","\n">>]
GenOutcomes == {GenRaises, GenSummary}

\* f"{sec['start_page']}-{sec['end_page']}"
page_range(sec) == str(sec.start_page) \o <<"-">> \o str(sec.end_page)

\* variant of SummarizeFrom: a generator failure ends the batch with what was summarized
RECURSIVE SummarizeFromAborting(_, _, _, _)
SummarizeFromAborting(secs, outcomes, out, prompts) ==
    IF secs = <<>> THEN [result |-> out, prompts |-> prompts]
    ELSE LET sec == Head(secs)
             text == Prefix(strip(sec.text), SummaryInputMax)
             outcome == outcomes[Len(prompts) + 1]
         IN  IF Len(text) < MinSummaryLen
             THEN SummarizeFromAborting(Tail(secs), outcomes, out, prompts)
             ELSE IF outcome.raises
             THEN [result |-> out, prompts |-> Append(prompts, text)]
             ELSE SummarizeFromAborting(Tail(secs), outcomes,
                      Append(out,
                             [section_name |-> sec.section_name,
                              summary |-> strip(outcome.text),
                              page_range |-> page_range(sec),
                              start_page |-> sec.start_page,
                              end_page |-> sec.end_page]),
                      Append(prompts, text))

\* the loop of summarize_sections: outcomes[n] is what the generator does at its n-th
\* invocation; prompts collects the texts it was invoked with
RECURSIVE SummarizeFrom(_, _, _, _)
SummarizeFrom(secs, outcomes, out, prompts) ==
    IF secs = <<>> THEN [result |-> out, prompts |-> prompts]
    ELSE LET sec == Head(secs)
             text == Prefix(strip(sec.text), SummaryInputMax)
             outcome == outcomes[Len(prompts) + 1]
             summary == IF outcome.raises THEN SummaryUnavailable ELSE outcome.text
         IN  IF Len(text) < MinSummaryLen
             THEN SummarizeFrom(Tail(secs), outcomes, out, prompts)
             ELSE SummarizeFrom(Tail(secs), outcomes,
                      Append(out,
                             [section_name |-> sec.section_name,
                              summary |-> strip(summary),
                              page_range |-> page_range(sec),
                              start_page |-> sec.start_page,
                              end_page |-> sec.end_page]),
                      Append(prompts, text))

summarize_sections(secs, outcomes) == SummarizeFrom(secs, outcomes, <<>>, <<>>)

\* an ALL CAPS heading
LineCaps ==
    <<"L","E","A","V","E"," ","P","O","L","I","C","Y">>

\* a numbered heading
LineNumbered ==
    <<"2",".","1"," ","S","c","o","p","e">>

\* a title-case heading of three words
LineTitle ==
    <<"A","n","n","u","a","l"," ","L","e","a","v","e"," ","P","o","l","i","c","y">>

\* two title-case words: no pattern matches
LineTwoWords ==
    <<"L","e","a","v","e"," ","P","o","l","i","c","y">>

\* a sentence of at least MinSummaryLen characters
LineProse ==
    <<"T","r","a","v","e","l"," ","a","b","o","v","e"," ","t","h","e"," ","l","i","m","i",
      "t"," ","n","e","e","d","s"," ","w","r","i","t","t","e","n"," ","a","p","p","r","o",
      "v","a","l"," ","b","y"," ","a"," ","m","a","n","a","g","e","r",".">>

\* a short sentence
LineShort ==
    <<"A","l","l"," ","s","t","a","f","f",".">>

\* prose without punctuation that starts with three capitalised words
LineNames ==
    <<"E","m","p","l","o","y","e","e","s"," ","M","a","y"," ","T","a","k","e"," ","p","a",
      "i","d"," ","l","e","a","v","e">>

\* a line of white space
LineBlank ==
    <<" "," ">>

\* "\n".join(lines)
Page(lines) == join_with(<<"\n">>, lines)

\* the page texts the sections harness and the uploaded files draw from
PageProse == Page(<<LineProse, LineShort>>)
PageCapsProse == Page(<<LineCaps, LineProse>>)
PageNumberedShort == Page(<<LineNumbered, LineBlank, LineShort>>)
PageTitleOnly == Page(<<LineTitle>>)
PageBlank == Page(<<LineBlank, LineBlank>>)
PageIntroThenCaps == Page(<<LineTwoWords, LineShort, LineCaps, LineProse>>)
PageNames == Page(<<LineNames, LineProse>>)
SectionPages ==
    {PageProse, PageCapsProse, PageNumberedShort, PageTitleOnly, PageBlank,
     PageIntroThenCaps, PageNames}

\* largest number of loader documents given to detect_sections
MaxSectionDocs == 2

\* PyPDFLoader: one document per page with its 0-based page; TextLoader: one document
\* without a page
SectionInputs ==
    UNION {{[d \in 1..n |-> [page_content |-> texts[d], metadata |-> [page |-> d - 1]]] :
               texts \in [1..n -> SectionPages]} : n \in 0..MaxSectionDocs}
        \cup {<<[page_content |-> text, metadata |-> <<>>]>> : text \in SectionPages}

\* detect_sections applied to the documents of a file
Detect ==
    /\ SecIdle
    /\ \E docs \in SectionInputs :
          /\ s_docs' = docs
          /\ sections' = Some(detect_sections(docs))
    /\ UNCHANGED <<llm_outcomes, summarized, ragVars, pureVars, clsVars, chunkVars, upVars,
                   diffVars>>

\* summarize_sections applied to the detected sections
Summarize ==
    /\ sections # <<>>
    /\ summarized = <<>>
    /\ \E outcomes \in [1..Len(sections[1]) -> GenOutcomes] :
          /\ llm_outcomes' = outcomes
          /\ summarized' = Some(summarize_sections(sections[1], outcomes))
    /\ UNCHANGED <<s_docs, sections, ragVars, pureVars, clsVars, chunkVars, upVars,
                   diffVars>>

InitSections ==
    /\ store = {}
    /\ IdleRequest
    /\ PureIdle
    /\ ClsIdle
    /\ DocsIdle

NextSections ==
    \/ Detect
    \/ Summarize

SpecSections == InitSections /\ [][NextSections]_vars

-----------------------------------------------------------------------------
(* table_parser.py and vector_store.add_documents_to_store.  A table is    *)
(* the rows of cells pdfplumber reports, each cell a text.                 *)

CellBar == <<" ", "|", " ">>
CellRule == <<"-", "-", "-">>

\* _table_to_markdown: the header row, a rule, and the body rows padded to the
\* header's width
_table_to_markdown(table) ==
    IF table = <<>> THEN <<>>
    ELSE LET header == table[1]
             Padded(row) ==
                 [c \in 1..(IF Len(row) < Len(header) THEN Len(header) ELSE Len(row)) |->
                     IF c <= Len(row) THEN row[c] ELSE <<>>]
             lines ==
                 <<join_with(CellBar, header),
                   join_with(CellBar, [c \in 1..Len(header) |-> CellRule])>>
                 \o [r \in 1..(Len(table) - 1) |-> join_with(CellBar, Padded(table[r + 1]))]
         IN  join_with(<<"\n">>, lines)

\* f"[TABLE - Page {page_num}]\n" (the dash stands for the source's U+2013)
TableTitle(page_num) ==
    <<"[", "T", "A", "B", "L", "E", " ", "-", " ", "P", "a", "g", "e", " ">>
        \o str(page_num) \o <<"]", "\n">>

\* the tables of one page, numbered from table_index on; an empty table is skipped
RECURSIVE PageTables(_, _, _, _)
PageTables(source, tables, page_num, table_index) ==
    IF tables = <<>> THEN <<>>
    ELSE LET md == _table_to_markdown(Head(tables))
         IN  IF strip(md) = <<>>
             THEN PageTables(source, Tail(tables), page_num, table_index)
             ELSE <<[page_content |-> TableTitle(page_num) \o md,
                     metadata |->
                         [page |-> page_num, source |-> source,
                          chunk_id |-> table_chunk_id(source, page_num, table_index),
                          is_table |-> TRUE, section_title |-> <<>>]]>>
                  \o PageTables(source, Tail(tables), page_num, table_index + 1)

RECURSIVE TablesFrom(_, _, _, _)
TablesFrom(source, pages, page_num, table_index) ==
    IF page_num > Len(pages) THEN <<>>
    ELSE LET found == PageTables(source, pages[page_num].tables, page_num, table_index)
         IN  found \o TablesFrom(source, pages, page_num + 1, table_index + Len(found))

\* extract_tables_from_pdf: [] when pdfplumber is missing or anything raises
extract_tables_from_pdf(file_path, file, fault) ==
    IF fault \in {"pdfplumber_missing", "extract_tables"} THEN <<>>
    ELSE TablesFrom(stem(file_path), file.pages, 1, 0)

\* the index entry of a document: its id is metadata.get("chunk_id", str(i))
IndexEntries(docs) ==
    [k \in 1..Len(docs) |->
        [chunk_id |-> Get(docs[k].metadata, "chunk_id", str(k - 1)),
         page |-> docs[k].metadata.page,
         is_table |-> Get(docs[k].metadata, "is_table", FALSE),
         page_content |-> docs[k].page_content]]

\* store.add_documents(documents, ids=ids) on the default collection (a set): an
\* entry with a stored id replaces the stored one
UpsertSet(collection, entries) ==
    LET ids == {entries[k].chunk_id : k \in 1..Len(entries)}
    IN  {c \in collection : c.chunk_id \notin ids} \cup {entries[k] : k \in 1..Len(entries)}

\* the same on a collection kept in insertion order
RECURSIVE UpsertSeq(_, _)
UpsertSeq(collection, entries) ==
    IF entries = <<>> THEN collection
    ELSE LET e == Head(entries)
             at == {k \in 1..Len(collection) : collection[k].chunk_id = e.chunk_id}
         IN  UpsertSeq(IF at = {} THEN Append(collection, e)
                       ELSE [k \in 1..Len(collection) |->
                                IF k \in at THEN e ELSE collection[k]],
                       Tail(entries))

-----------------------------------------------------------------------------
(* main.py: upload_document.  A file is its name and its pages; a page is  *)
(* its text and its tables.  One upload is served at a time; fault names   *)
(* the step of the handler at which a dependency fails, if any.            *)

SuffixPdf == <<".", "p", "d", "f">>
SuffixTxt == <<".", "t", "x", "t">>
SuffixText == <<".", "t", "e", "x", "t">>
ALLOWED_EXTENSIONS == {SuffixPdf, SuffixTxt}

\* get_uploads_dir()
UploadsDir == <<"u", "p", "l", "o", "a", "d", "s", "/">>

\* variant of uuid4: every call returns the same value
uuid4_same(n) == str(1)

\* str(uuid.uuid4()): the n-th value drawn differs from every earlier one
uuid4(n) == str(n)

RatesTable ==
    <<<<<<"G", "r", "a", "d", "e">>, <<"L", "i", "m", "i", "t">>>>,
      <<<<"A">>, <<"5", "0", "0">>>>>>

FileHandbook ==
    [filename |->
         <<"H","a","n","d","b","o","o","k",".","P","D","F">>,
     pages |-> <<[text |-> PageCapsProse, tables |-> <<RatesTable>>],
                 [text |-> PageProse, tables |-> <<>>]>>]
FileNotes ==
    [filename |->
         <<"n","o","t","e","s",".","t","x","t">>,
     pages |-> <<[text |-> PageIntroThenCaps, tables |-> <<>>]>>]
FileEmpty ==
    [filename |->
         <<"e","m","p","t","y",".","p","d","f">>,
     pages |-> <<>>]
FileImage ==
    [filename |->
         <<"p","h","o","t","o",".","p","n","g">>,
     pages |-> <<>>]
Files == {FileHandbook, FileNotes, FileEmpty, FileImage}

\* the collections uploads name
UploadCollections == {COLLECTION_NAME, CompareA, CompareB}

\* the steps at which a dependency of the handler can fail
Faults ==
    {"none", "save", "load", "index", "pdfplumber_missing", "extract_tables",
     "index_tables", "detect_sections", "get_llm", "cache_sections"}

\* load_document: PyPDFLoader gives one document per page with a 0-based page,
\* TextLoader one document for the file
load_document(file_path, file) ==
    IF lower(suffix(file_path)) = SuffixPdf
    THEN [raises |-> "",
          docs |-> [d \in 1..Len(file.pages) |->
                       [page_content |-> file.pages[d].text,
                        metadata |-> [source |-> file_path, page |-> d - 1]]]]
    ELSE IF lower(suffix(file_path)) \in {SuffixTxt, SuffixText}
    THEN [raises |-> "",
          docs |-> <<[page_content |->
                          Concat([d \in 1..Len(file.pages) |-> file.pages[d].text]),
                      metadata |-> [source |-> file_path]]>>]
    ELSE [raises |-> "ValueError", docs |-> <<>>]

\* the splitter on a text within chunk_size: the stripped text, nothing when blank
ShortCuts(docs) ==
    [d \in 1..Len(docs) |->
        IF strip(docs[d].page_content) = <<>> THEN <<>>
        ELSE <<strip(docs[d].page_content)>>]

DetailAllowedTypes ==
    <<"A","l","l","o","w","e","d"," ","t","y","p","e","s",":"," ">>
DetailSaveFailed ==
    <<"F","a","i","l","e","d"," ","t","o"," ","s","a","v","e"," ","f","i","l","e",":"," ">>
DetailProcessingFailed ==
    <<"P","r","o","c","e","s","s","i","n","g"," ","f","a","i","l","e","d",":"," ">>
DetailEmptyDocument ==
    <<"4","0","0",":"," ","D","o","c","u","m","e","n","t"," ","c","o","u","l","d"," ","n",
      "o","t"," ","b","e"," ","p","a","r","s","e","d"," ","o","r"," ","i","s"," ","e","m",
      "p","t","y",".">>
UploadMessage ==
    <<"D","o","c","u","m","e","n","t"," ","u","p","l","o","a","d","e","d",","," ","i","n",
      "d","e","x","e","d",","," ","a","n","d"," ","a","n","a","l","y","z","e","d"," ","s",
      "u","c","c","e","s","s","f","u","l","l","y",".">>

ErrorResponse(status, detail) == [status |-> status, detail |-> detail, body |-> <<>>]

\* str(e) of an exception raised by a dependency
DependencyError ==
    <<"d", "e", "p", "e", "n", "d", "e", "n", "c", "y", " ", "f", "a", "i", "l", "e", "d">>

\* the chunks held by a collection
CollectionSize(name, default, others) ==
    IF name = COLLECTION_NAME THEN Cardinality(default) ELSE Len(others[name])

\* largest number of uploads in a behaviour
MaxUploads == 2

\* the table step of the handler: the table chunks are indexed when tables are wanted
\* and found; a failure of that indexing is not caught by the step
TablesStep(wanted, tdocs, fault) ==
    IF ~wanted \/ tdocs = <<>> THEN [raises |-> FALSE, added |-> <<>>, tables_ingested |-> 0]
    ELSE IF fault = "index_tables" THEN [raises |-> TRUE, added |-> <<>>, tables_ingested |-> 0]
    ELSE [raises |-> FALSE, added |-> tdocs, tables_ingested |-> Len(tdocs)]

\* the sections step of the handler: detection, summaries and caching run inside one
\* try block, and the count is set after the cache is written
SectionsStep(wanted, docs, outcomes, fault) ==
    IF ~wanted \/ fault \in {"detect_sections", "get_llm", "cache_sections"}
    THEN [cached |-> <<>>, sections_detected |-> 0]
    ELSE LET found == detect_sections(docs)
             made == summarize_sections(found, outcomes).result
         IN  IF found = <<>> THEN [cached |-> <<>>, sections_detected |-> 0]
             ELSE [cached |-> Some(made), sections_detected |-> Len(made)]

\* what one upload does: its response, the entries it puts into the index, the file
\* and the cache entry it writes.  file_id is <<>> when no uuid was drawn.
upload_document(file, collection_name, fault, outcomes, n) ==
    LET sfx == lower(suffix(file.filename))
        file_id == uuid4(n)
        path == UploadsDir \o file_id \o sfx
        loaded == load_document(path, file)
        docs == loaded.docs
        made == chunk_documents(docs, ShortCuts(docs))
        is_default == collection_name = COLLECTION_NAME
        tables == TablesStep(sfx = SuffixPdf /\ is_default,
                             extract_tables_from_pdf(path, file, fault), fault)
        secs == SectionsStep(is_default, docs, outcomes, fault)
        Nothing(resp, id, saved) ==
            [response |-> resp, file_id |-> id, saved |-> saved, indexed |-> <<>>,
             cached |-> <<>>]
    IN  IF sfx \notin ALLOWED_EXTENSIONS
        THEN Nothing(ErrorResponse(400, DetailAllowedTypes), <<>>, {})
        ELSE IF fault = "save"
        THEN Nothing(ErrorResponse(500, DetailSaveFailed \o DependencyError), file_id, {})
        ELSE IF loaded.raises = "ValueError"
        THEN Nothing(ErrorResponse(400, DependencyError), file_id, {path})
        ELSE IF fault = "load"
        THEN Nothing(ErrorResponse(500, DetailProcessingFailed \o DependencyError),
                     file_id, {path})
        ELSE IF docs = <<>>
        THEN Nothing(ErrorResponse(500, DetailProcessingFailed \o DetailEmptyDocument),
                     file_id, {path})
        ELSE IF fault = "index"
        THEN Nothing(ErrorResponse(500, DetailProcessingFailed \o DependencyError),
                     file_id, {path})
        ELSE IF tables.raises
        THEN [response |->
                  ErrorResponse(500, DetailProcessingFailed \o DependencyError),
              file_id |-> file_id, saved |-> {path}, indexed |-> IndexEntries(made),
              cached |-> <<>>]
        ELSE [response |->
                  [status |-> 200, detail |-> <<>>,
                   body |-> Some([message |-> UploadMessage, file_id |-> file_id,
                                  filename |-> file.filename,
                                  chunks_ingested |-> Len(made),
                                  tables_ingested |-> tables.tables_ingested,
                                  sections_detected |-> secs.sections_detected])],
              file_id |-> file_id, saved |-> {path},
              indexed |-> IndexEntries(made) \o IndexEntries(tables.added),
              cached |-> secs.cached]

\* the number of sections detect_sections finds in the file's documents: the
\* generator is invoked at most once for each
SectionCount ==
    [file \in Files |->
        Len(detect_sections(
                load_document(UploadsDir \o lower(suffix(file.filename)), file).docs))]

\* the durable state: the index, the uploads directory and the section cache, with
\* the uuid counter and the log of uploads
NoUploads ==
    [store |-> {}, compare_store |-> [name \in OtherCollections |-> <<>>],
     section_cache |-> <<>>, saved_files |-> {}, uuid_count |-> 0, upload_log |-> <<>>]
Durable ==
    [store |-> store, compare_store |-> compare_store, section_cache |-> section_cache,
     saved_files |-> saved_files, uuid_count |-> uuid_count, upload_log |-> upload_log]

\* variant of Written: the chunks of every upload are also put into the default
\* collection
WrittenAlsoToDefault(st, up, filename, collection_name, fault) ==
    LET new_store == UpsertSet(st.store, up.indexed)
        new_others == IF collection_name = COLLECTION_NAME THEN st.compare_store
                      ELSE [st.compare_store EXCEPT
                               ![collection_name] = UpsertSeq(@, up.indexed)]
    IN  [store |-> new_store,
         compare_store |-> new_others,
         section_cache |->
             IF up.cached = <<>> THEN st.section_cache
             ELSE [id \in DOMAIN st.section_cache \cup {up.file_id} |->
                      IF id = up.file_id THEN up.cached[1] ELSE st.section_cache[id]],
         saved_files |-> st.saved_files \cup up.saved,
         uuid_count |-> IF up.file_id = <<>> THEN st.uuid_count ELSE st.uuid_count + 1,
         upload_log |->
             Append(st.upload_log,
                    [filename |-> filename, collection_name |-> collection_name,
                     fault |-> fault, file_id |-> up.file_id, response |-> up.response,
                     stored |-> CollectionSize(collection_name, new_store, new_others)])]

\* the durable state after an upload that did up, starting from st
Written(st, up, filename, collection_name, fault) ==
    LET new_store == IF collection_name = COLLECTION_NAME
                     THEN UpsertSet(st.store, up.indexed)
                     ELSE st.store
        new_others == IF collection_name = COLLECTION_NAME THEN st.compare_store
                      ELSE [st.compare_store EXCEPT
                               ![collection_name] = UpsertSeq(@, up.indexed)]
    IN  [store |-> new_store,
         compare_store |-> new_others,
         section_cache |->
             IF up.cached = <<>> THEN st.section_cache
             ELSE [id \in DOMAIN st.section_cache \cup {up.file_id} |->
                      IF id = up.file_id THEN up.cached[1] ELSE st.section_cache[id]],
         saved_files |-> st.saved_files \cup up.saved,
         uuid_count |-> IF up.file_id = <<>> THEN st.uuid_count ELSE st.uuid_count + 1,
         upload_log |->
             Append(st.upload_log,
                    [filename |-> filename, collection_name |-> collection_name,
                     fault |-> fault, file_id |-> up.file_id, response |-> up.response,
                     stored |-> CollectionSize(collection_name, new_store, new_others)])]

\* POST /upload served on the durable state st
AfterUpload(st, file, collection_name, fault, outcomes) ==
    Written(st,
            upload_document(file, collection_name, fault, outcomes, st.uuid_count + 1),
            file.filename, collection_name, fault)

\* POST /upload
Upload ==
    /\ Len(upload_log) < MaxUploads
    /\ \E file \in Files, collection_name \in UploadCollections, fault \in Faults :
          \E outcomes \in [1..SectionCount[file] -> GenOutcomes] :
             \E next \in {AfterUpload(Durable, file, collection_name, fault, outcomes)} :
                 /\ store' = next.store
                 /\ compare_store' = next.compare_store
                 /\ section_cache' = next.section_cache
                 /\ saved_files' = next.saved_files
                 /\ uuid_count' = next.uuid_count
                 /\ upload_log' = next.upload_log
    /\ UNCHANGED <<pc, req, rank, table_docs, scored, docs_with_scores, confidence,
                   llm_calls, context, answer, result, prev, pureVars, clsVars, chunkVars,
                   secVars, diffVars, in_flight>>

InitUpload ==
    /\ store = {}
    /\ IdleRequest
    /\ PureIdle
    /\ ClsIdle
    /\ DocsIdle

SpecUpload == InitUpload /\ [][Upload]_vars

\* uploads served while a request is answered.  Each of these uploads is made once.
FileRates ==
    [filename |-> <<"r", "a", "t", "e", "s">> \o SuffixPdf,
     pages |-> <<[text |-> LineShort, tables |-> <<RatesTable>>]>>]
FileMemo ==
    [filename |-> <<"m", "e", "m", "o">> \o SuffixTxt,
     pages |-> <<[text |-> LineTwoWords, tables |-> <<>>]>>]
MixJobs ==
    {[file |-> FileMemo, collection_name |-> COLLECTION_NAME],
     [file |-> FileRates, collection_name |-> COLLECTION_NAME],
     [file |-> FileRates, collection_name |-> CompareA],
     [file |-> FileMemo, collection_name |-> CompareB]}

\* the number of sections detect_sections finds in a file's documents
SectionsIn(file) ==
    Len(detect_sections(load_document(UploadsDir \o lower(suffix(file.filename)),
                                      file).docs))

\* the similarity orders of the index after an upload: the chunks it held keep their
\* order, the new ones are anywhere between them
Reranked(ranking, new_store) ==
    LET Old(d) == \E k \in 1..Len(ranking) : ranking[k] = d
        Kept(d) == d \in new_store
    IN  {r \in Perms(new_store) : FilterSeq(Old, r) = FilterSeq(Kept, ranking)}

\* POST /upload served by another worker: between two requests, or between two index
\* calls of the request in progress, whose next search sees the new chunks
UploadMeanwhile ==
    /\ \E job \in MixJobs :
          /\ \A i \in 1..Len(upload_log) :
                ~(/\ upload_log[i].filename = job.file.filename
                  /\ upload_log[i].collection_name = job.collection_name)
          /\ \E outcomes \in [1..SectionsIn(job.file) -> GenOutcomes] :
                \E next \in {AfterUpload(Durable, job.file, job.collection_name, "none",
                                         outcomes)} :
                    /\ store' = next.store
                    /\ compare_store' = next.compare_store
                    /\ section_cache' = next.section_cache
                    /\ saved_files' = next.saved_files
                    /\ uuid_count' = next.uuid_count
                    /\ upload_log' = next.upload_log
                    /\ rank' \in IF pc \in {"tables", "scored"}
                                 THEN Reranked(rank, next.store)
                                 ELSE {rank}
    /\ UNCHANGED <<pc, req, table_docs, scored, docs_with_scores, confidence,
                   llm_calls, context, answer, result, prev, pureVars, clsVars, chunkVars,
                   secVars, diffVars, in_flight>>

\* the retrieval steps of one request, with uploads before, between and after them
NextMix ==
    \/ StartAnswer
    \/ StartScenario
    \/ SearchTables
    \/ SearchScored
    \/ UploadMeanwhile

SpecMix == InitUpload /\ [][NextMix]_vars

\* uploads served at the same time by several workers.  A worker's upload is a
\* sequence of steps, one for each call that writes to the index or the section
\* cache; what it writes is fixed by its file, its file_id and what its dependencies
\* do, and other workers' steps run between its own.

ConcFiles == {FileRates, FileMemo}
ConcCollections == {COLLECTION_NAME, CompareA}
ConcFaults == {"none", "index_tables", "cache_sections"}

\* what the upload in flight at worker u does
Doing(u) ==
    upload_document(in_flight[u][1].file, in_flight[u][1].collection_name,
                    in_flight[u][1].fault, in_flight[u][1].outcomes, in_flight[u][1].n)

NotTable(d) == ~d.is_table

\* add_documents_to_store(entries, collection_name) on the index (default, others)
Added(default, others, collection_name, entries) ==
    IF collection_name = COLLECTION_NAME
    THEN [store |-> UpsertSet(default, entries), compare_store |-> others]
    ELSE [store |-> default,
          compare_store |-> [others EXCEPT ![collection_name] = UpsertSeq(@, entries)]]

UnchangedButUploads ==
    UNCHANGED <<pc, req, rank, table_docs, scored, docs_with_scores, confidence,
                llm_calls, context, answer, result, prev, pureVars, clsVars, chunkVars,
                secVars, diffVars>>

\* main.py 165-203: the request is validated, the file_id drawn, the file saved,
\* loaded and chunked
BeginUpload(u) ==
    /\ in_flight[u] = <<>>
    /\ \E file \in ConcFiles, collection_name \in ConcCollections, fault \in ConcFaults :
          \E outcomes \in [1..SectionsIn(file) -> GenOutcomes] :
             LET job == [file |-> file, collection_name |-> collection_name,
                         fault |-> fault, outcomes |-> outcomes, n |-> uuid_count + 1]
                 does == upload_document(file, collection_name, fault, outcomes,
                                         uuid_count + 1)
             IN  /\ in_flight' = [in_flight EXCEPT ![u] = <<job @@ [step |-> "index"]>>]
                 /\ saved_files' = saved_files \cup does.saved
    /\ uuid_count' = uuid_count + 1
    /\ UNCHANGED <<store, compare_store, section_cache, upload_log>>
    /\ UnchangedButUploads

\* main.py 204: add_documents_to_store(chunks, collection_name)
IndexText(u) ==
    /\ in_flight[u] # <<>>
    /\ in_flight[u][1].step = "index"
    /\ \E next \in {Added(store, compare_store, in_flight[u][1].collection_name,
                           FilterSeq(NotTable, Doing(u).indexed))} :
          /\ store' = next.store
          /\ compare_store' = next.compare_store
    /\ in_flight' = [in_flight EXCEPT ![u][1].step = "tables"]
    /\ UNCHANGED <<section_cache, saved_files, uuid_count, upload_log>>
    /\ UnchangedButUploads

\* main.py 207-213: add_documents_to_store(table_docs, collection_name)
IndexTables(u) ==
    /\ in_flight[u] # <<>>
    /\ in_flight[u][1].step = "tables"
    /\ \E next \in {Added(store, compare_store, in_flight[u][1].collection_name,
                           FilterSeq(IsTable, Doing(u).indexed))} :
          /\ store' = next.store
          /\ compare_store' = next.compare_store
    /\ in_flight' = [in_flight EXCEPT ![u][1].step = "sections"]
    /\ UNCHANGED <<section_cache, saved_files, uuid_count, upload_log>>
    /\ UnchangedButUploads

\* main.py 216-227: cache_sections(summarized, file_id) writes the file of this upload
CacheSections(u) ==
    /\ in_flight[u] # <<>>
    /\ in_flight[u][1].step = "sections"
    /\ \E does \in {Doing(u)} :
          section_cache' =
              IF does.cached = <<>> THEN section_cache
              ELSE [id \in DOMAIN section_cache \cup {does.file_id} |->
                       IF id = does.file_id THEN does.cached[1] ELSE section_cache[id]]
    /\ in_flight' = [in_flight EXCEPT ![u][1].step = "respond"]
    /\ UNCHANGED <<store, compare_store, saved_files, uuid_count, upload_log>>
    /\ UnchangedButUploads

\* main.py 229-240: the response is returned
Respond(u) ==
    /\ in_flight[u] # <<>>
    /\ in_flight[u][1].step = "respond"
    /\ \E does \in {Doing(u)} :
          upload_log' =
              Append(upload_log,
                     [filename |-> in_flight[u][1].file.filename,
                      collection_name |-> in_flight[u][1].collection_name,
                      fault |-> in_flight[u][1].fault, file_id |-> does.file_id,
                      response |-> does.response,
                      stored |-> CollectionSize(in_flight[u][1].collection_name, store,
                                                compare_store)])
    /\ in_flight' = [in_flight EXCEPT ![u][1].step = "done"]
    /\ UNCHANGED <<store, compare_store, section_cache, saved_files, uuid_count>>
    /\ UnchangedButUploads

NextConcurrent ==
    \E u \in Uploaders :
        \/ BeginUpload(u)
        \/ IndexText(u)
        \/ IndexTables(u)
        \/ CacheSections(u)
        \/ Respond(u)

SpecConcurrent == InitUpload /\ [][NextConcurrent]_vars

-----------------------------------------------------------------------------
(* diff.py and the compare endpoint of main.py.  Similarities are integers *)
(* in millionths (0.70 is 700000).  The embedder and the normalised dot    *)
(* product are the table cosine: the similarity of each pair of texts, 1   *)
(* for a text with itself.                                                 *)

SIMILARITY_THRESHOLD == 700000
\* chunk.page_content[:250]
DiffExcerptLen == 250
\* added_in_b[:20], removed_in_b[:20]
DiffListMax == 20

\* round(score, 3) in millionths; no modelled similarity lies half-way
round3(score) == ((score + 500) \div 1000) * 1000

ErrorNeither ==
    <<"N","e","i","t","h","e","r"," ","d","o","c","u","m","e","n","t"," ","w","a","s"," ",
      "f","o","u","n","d","."," ","P","l","e","a","s","e"," ","u","p","l","o","a","d"," ",
      "b","o","t","h"," ","d","o","c","u","m","e","n","t","s"," ","u","s","i","n","g"," ",
      "t","h","e"," ","C","o","m","p","a","r","e"," ","t","a","b",".">>
ErrorNoContentA ==
    <<"D","o","c","u","m","e","n","t"," ","A"," ","h","a","s"," ","n","o"," ","i","n","d",
      "e","x","e","d"," ","c","o","n","t","e","n","t"," ","(","c","o","l","l","e","c","t",
      "i","o","n",":"," ">>
ErrorNoContentB ==
    <<"D","o","c","u","m","e","n","t"," ","B"," ","h","a","s"," ","n","o"," ","i","n","d",
      "e","x","e","d"," ","c","o","n","t","e","n","t"," ","(","c","o","l","l","e","c","t",
      "i","o","n",":"," ">>
ErrorNoContentEnd == <<")", ".">>
SummaryIdentical ==
    <<"T","h","e"," ","t","w","o"," ","d","o","c","u","m","e","n","t","s"," ","a","p","p",
      "e","a","r"," ","s","e","m","a","n","t","i","c","a","l","l","y"," ","i","d","e","n",
      "t","i","c","a","l",".">>
SummaryRemoved ==
    <<" ","s","e","c","t","i","o","n","(","s",")"," ","f","r","o","m"," ","D","o","c","u",
      "m","e","n","t"," ","A"," ","h","a","v","e"," ","n","o"," ","c","l","o","s","e"," ",
      "m","a","t","c","h"," ","i","n"," ","D","o","c","u","m","e","n","t"," ","B"," ","-",
      " ","p","o","s","s","i","b","l","y"," ","r","e","v","i","s","e","d"," ","o","r"," ",
      "r","e","m","o","v","e","d",".">>
SummaryAdded ==
    <<" ","s","e","c","t","i","o","n","(","s",")"," ","i","n"," ","D","o","c","u","m","e",
      "n","t"," ","B"," ","h","a","v","e"," ","n","o"," ","c","l","o","s","e"," ","m","a",
      "t","c","h"," ","i","n"," ","D","o","c","u","m","e","n","t"," ","A"," ","-"," ","p",
      "o","s","s","i","b","l","y"," ","n","e","w"," ","c","o","n","t","e","n","t",".">>
SummaryCommon ==
    <<" ","s","e","c","t","i","o","n","(","s",")"," ","a","r","e"," ","s","e","m","a","n",
      "t","i","c","a","l","l","y"," ","c","o","m","m","o","n"," ","t","o"," ","b","o","t",
      "h"," ","d","o","c","u","m","e","n","t","s",".">>
DetailSameCollections ==
    <<"c","o","l","l","e","c","t","i","o","n","_","a"," ","a","n","d"," ","c","o","l","l",
      "e","c","t","i","o","n","_","b"," ","m","u","s","t"," ","b","e"," ","d","i","f","f",
      "e","r","e","n","t",".">>
DetailComparisonFailed ==
    <<"C","o","m","p","a","r","i","s","o","n"," ","f","a","i","l","e","d",":"," ">>

\* the chunks of a collection in the order the index returns them; default_order is
\* that order for the default collection, which the model keeps as a set
CollectionChunks(name, default_order) ==
    IF name = COLLECTION_NAME THEN default_order
    ELSE IF name \in DOMAIN compare_store THEN compare_store[name]
    ELSE <<>>

\* _get_all_chunks: get_vector_store is called outside the try block, the collection's
\* get inside it
_get_all_chunks(stored, fault) ==
    IF fault = "open" THEN [raises |-> TRUE, docs |-> <<>>]
    ELSE IF fault = "get" THEN [raises |-> FALSE, docs |-> <<>>]
    ELSE [raises |-> FALSE, docs |-> stored]

\* variant of BestMatch: the similarity to the first chunk of the other side
BestMatchFirstOnly(text, others, cos) == cos[<<text, others[1].page_content>>]

\* float(sim[i].max()): the largest similarity of a text to the other side's chunks
BestMatch(text, others, cos) ==
    MaxOf([k \in 1..Len(others) |-> cos[<<text, others[k].page_content>>]])

DiffEntry(chunk, score) ==
    [page |-> chunk.page,
     excerpt |-> strip(Prefix(chunk.page_content, DiffExcerptLen)),
     similarity |-> round3(score)]

\* variant of IsAbsent: a best match at the threshold counts as absent
IsAbsentAtThreshold(score) == score <= SIMILARITY_THRESHOLD

\* score < SIMILARITY_THRESHOLD
IsAbsent(score) == score < SIMILARITY_THRESHOLD

\* variant of PassOverA: a chunk of A with a close match is not counted
RECURSIVE PassOverANotCounting(_, _, _)
PassOverANotCounting(chunks_a, chunks_b, cos) ==
    IF chunks_a = <<>> THEN [removed_in_b |-> <<>>, common_count |-> 0]
    ELSE LET score == BestMatch(Head(chunks_a).page_content, chunks_b, cos)
             rest == PassOverANotCounting(Tail(chunks_a), chunks_b, cos)
         IN  IF IsAbsent(score)
             THEN [removed_in_b |-> <<DiffEntry(Head(chunks_a), score)>> \o rest.removed_in_b,
                   common_count |-> rest.common_count]
             ELSE rest

\* the loop over chunks_a: an entry for each chunk whose best match in B is absent,
\* and the count of the others
RECURSIVE PassOverA(_, _, _)
PassOverA(chunks_a, chunks_b, cos) ==
    IF chunks_a = <<>> THEN [removed_in_b |-> <<>>, common_count |-> 0]
    ELSE LET score == BestMatch(Head(chunks_a).page_content, chunks_b, cos)
             rest == PassOverA(Tail(chunks_a), chunks_b, cos)
         IN  IF IsAbsent(score)
             THEN [removed_in_b |-> <<DiffEntry(Head(chunks_a), score)>> \o rest.removed_in_b,
                   common_count |-> rest.common_count]
             ELSE [removed_in_b |-> rest.removed_in_b,
                   common_count |-> rest.common_count + 1]

\* the loop over chunks_b: an entry for each chunk whose best match in A is absent
RECURSIVE PassOverB(_, _, _)
PassOverB(chunks_b, chunks_a, cos) ==
    IF chunks_b = <<>> THEN <<>>
    ELSE LET score == BestMatch(Head(chunks_b).page_content, chunks_a, cos)
         IN  (IF IsAbsent(score) THEN <<DiffEntry(Head(chunks_b), score)>> ELSE <<>>)
             \o PassOverB(Tail(chunks_b), chunks_a, cos)

\* the plain-English summary (its dashes stand for the source's U+2014)
DiffSummary(removed_in_b, added_in_b, common_count) ==
    IF removed_in_b = <<>> /\ added_in_b = <<>> THEN SummaryIdentical
    ELSE join((IF removed_in_b # <<>>
               THEN <<str(Len(removed_in_b)) \o SummaryRemoved>> ELSE <<>>)
              \o (IF added_in_b # <<>>
                  THEN <<str(Len(added_in_b)) \o SummaryAdded>> ELSE <<>>)
              \o <<str(common_count) \o SummaryCommon>>)

\* variant of FirstItems: the last DiffListMax items
LastItems(items) ==
    SubSeq(items, IF Len(items) > DiffListMax THEN Len(items) - DiffListMax + 1 ELSE 1,
           Len(items))

\* items[:20]
FirstItems(items) == Prefix(items, DiffListMax)

\* the part of compare_documents after both fetches: chunks_a and chunks_b are the
\* fetched lists, fault the failure of the embedder, if any
DiffOf(collection_a, collection_b, chunks_a, chunks_b, cos, fault) ==
    IF chunks_a = <<>> /\ chunks_b = <<>>
    THEN [raises |-> FALSE, embed_calls |-> 0,
          result |-> [error |-> ErrorNeither, source_a |-> collection_a,
                      source_b |-> collection_b]]
    ELSE IF chunks_a = <<>>
    THEN [raises |-> FALSE, embed_calls |-> 0,
          result |-> [error |-> ErrorNoContentA \o collection_a \o ErrorNoContentEnd,
                      source_a |-> collection_a, source_b |-> collection_b]]
    ELSE IF chunks_b = <<>>
    THEN [raises |-> FALSE, embed_calls |-> 0,
          result |-> [error |-> ErrorNoContentB \o collection_b \o ErrorNoContentEnd,
                      source_a |-> collection_a, source_b |-> collection_b]]
    ELSE IF fault = "embed_a" THEN [raises |-> TRUE, embed_calls |-> 1, result |-> <<>>]
    ELSE IF fault = "embed_b" THEN [raises |-> TRUE, embed_calls |-> 2, result |-> <<>>]
    ELSE LET pass_a == PassOverA(chunks_a, chunks_b, cos)
             added_in_b == PassOverB(chunks_b, chunks_a, cos)
         IN  [raises |-> FALSE, embed_calls |-> 2,
              result |-> [source_a |-> collection_a, source_b |-> collection_b,
                          added_in_b |-> FirstItems(added_in_b),
                          removed_in_b |-> FirstItems(pass_a.removed_in_b),
                          common_count |-> pass_a.common_count,
                          summary |-> DiffSummary(pass_a.removed_in_b, added_in_b,
                                                  pass_a.common_count)]]

\* compare_documents: fetch A, fetch B, then the diff.  index_calls counts the fetches
compare_documents(collection_a, collection_b, default_order, cos, fault) ==
    LET got_a == _get_all_chunks(CollectionChunks(collection_a, default_order),
                                 IF fault = "open_a" THEN "open"
                                 ELSE IF fault = "get_a" THEN "get" ELSE "none")
        got_b == _get_all_chunks(CollectionChunks(collection_b, default_order),
                                 IF fault = "open_b" THEN "open"
                                 ELSE IF fault = "get_b" THEN "get" ELSE "none")
    IN  IF got_a.raises
        THEN [raises |-> TRUE, index_calls |-> 1, embed_calls |-> 0, result |-> <<>>]
        ELSE IF got_b.raises
        THEN [raises |-> TRUE, index_calls |-> 2, embed_calls |-> 0, result |-> <<>>]
        ELSE [index_calls |-> 2]
             @@ DiffOf(collection_a, collection_b, got_a.docs, got_b.docs, cos, fault)

\* the endpoint's reply to what compare_documents did: an exception is a 500, an
\* error result a 404
CompareReply(out) ==
    IF out.raises
    THEN [status |-> 500, detail |-> DetailComparisonFailed \o DependencyError,
          body |-> <<>>, index_calls |-> out.index_calls,
          embed_calls |-> out.embed_calls]
    ELSE IF "error" \in DOMAIN out.result
    THEN [status |-> 404, detail |-> out.result.error, body |-> <<>>,
          index_calls |-> out.index_calls, embed_calls |-> out.embed_calls]
    ELSE [status |-> 200, detail |-> <<>>, body |-> Some(out.result),
          index_calls |-> out.index_calls, embed_calls |-> out.embed_calls]

\* POST /compare_documents
compare_documents_endpoint(request, cos) ==
    IF strip(request.collection_a) = strip(request.collection_b)
    THEN [status |-> 400, detail |-> DetailSameCollections, body |-> <<>>,
          index_calls |-> 0, embed_calls |-> 0]
    ELSE CompareReply(compare_documents(strip(request.collection_a),
                                        strip(request.collection_b),
                                        request.default_order, cos, request.fault))

\* the harness of the comparison: two documents uploaded into the comparison
\* collections and one into the default collection, then one POST /compare_documents

\* largest number of pages of a compared document (one chunk per page)
MaxDiffChunks == 2

\* the page texts of the compared documents
DiffPages == {LineShort, LineTwoWords, LineProse}

\* the chunk texts those pages give
DiffTexts == {strip(t) : t \in DiffPages}

\* similarities of two different texts: below the threshold and at it
OtherSimilarities == {699999, SIMILARITY_THRESHOLD}

\* the similarity tables: symmetric, 1 for a text with itself
Geometries ==
    LET pairs == {{x, y} : x, y \in DiffTexts} \ {{x} : x \in DiffTexts}
    IN  {[p \in DiffTexts \X DiffTexts |->
             IF p[1] = p[2] THEN 1000000 ELSE c[{p[1], p[2]}]] :
         c \in [pairs -> OtherSimilarities]}

DiffPageLists == UNION {[1..n -> DiffPages] : n \in 0..MaxDiffChunks}

DiffFile(name, texts) ==
    [filename |-> name \o SuffixPdf,
     pages |-> [d \in 1..Len(texts) |-> [text |-> texts[d], tables |-> <<>>]]]

NameOld == <<"o", "l", "d">>
NameNew == <<"n", "e", "w">>
NamePolicy == <<"p", "o", "l", "i", "c", "y">>

\* the document of the default collection
FilePolicy == DiffFile(NamePolicy, <<LineShort, LineTwoWords>>)

\* collection names of a request: a name is stripped by the endpoint
PaddedA == <<" ">> \o CompareA
NamesA == {CompareA, PaddedA, COLLECTION_NAME, CompareMissing}
NamesB == {CompareB, CompareA, COLLECTION_NAME}

\* the steps at which a dependency of the comparison can fail
CompareFaults == {"none", "open_a", "get_a", "open_b", "get_b", "embed_a", "embed_b"}

\* POST /compare_documents; a dependency fails only in requests that reach it with
\* collection_b the second comparison collection
Compare ==
    /\ cmp_req = <<>>
    /\ \E collection_a \in NamesA, collection_b \in NamesB, fault \in CompareFaults,
          default_order \in Perms(store) :
          LET request == [collection_a |-> collection_a, collection_b |-> collection_b,
                          default_order |-> default_order, fault |-> fault]
          IN  /\ fault = "none" \/ (collection_a \in {CompareA, COLLECTION_NAME}
                                     /\ collection_b = CompareB)
              /\ cmp_req' = Some(request)
              /\ cmp_out' = Some(compare_documents_endpoint(request, cosine))
    /\ UNCHANGED <<store, pc, req, rank, table_docs, scored, docs_with_scores, confidence,
                   llm_calls, context, answer, result, prev, pureVars, clsVars, chunkVars,
                   secVars, upVars, cosine>>

\* the durable state once the document of the default collection is uploaded
PolicyUploaded ==
    AfterUpload(NoUploads, FilePolicy, COLLECTION_NAME, "none", [k \in 1..1 |-> GenSummary])

InitDiff ==
    /\ IdleRequest
    /\ PureIdle
    /\ ClsIdle
    /\ ChunkIdle
    /\ SecIdle
    /\ cmp_req = <<>>
    /\ cmp_out = <<>>
    /\ \E pages_a, pages_b \in DiffPageLists :
          \E s2 \in {AfterUpload(PolicyUploaded, DiffFile(NameOld, pages_a), CompareA,
                                 "none", <<>>)} :
             \E s3 \in {AfterUpload(s2, DiffFile(NameNew, pages_b), CompareB, "none",
                                    <<>>)} :
                /\ store = s3.store
                /\ compare_store = s3.compare_store
                /\ section_cache = s3.section_cache
                /\ saved_files = s3.saved_files
                /\ uuid_count = s3.uuid_count
                /\ upload_log = s3.upload_log
                /\ in_flight = NoneInFlight
    /\ cosine \in Geometries

SpecDiff == InitDiff /\ [][Compare]_vars

\* the harness of long comparisons: documents of more pages than a list of the
\* result holds, compared while the default collection is empty

\* largest number of pages of a long document (one chunk per page)
MaxLongChunks == 22

LongLengths == {MaxLongChunks - 1, MaxLongChunks}

\* the page texts of a long document: that of its second page and that of the others
LongPatternsA == [{"second", "others"} -> {LineShort, LineTwoWords}]
LongPatternsB == [{"second", "others"} -> {LineTwoWords, LineProse}]

LongPages(pattern, n) ==
    [d \in 1..n |-> IF d = 1 + 1 THEN pattern["second"] ELSE pattern["others"]]

InitDiffLong ==
    /\ IdleRequest
    /\ PureIdle
    /\ ClsIdle
    /\ ChunkIdle
    /\ SecIdle
    /\ cmp_req = <<>>
    /\ cmp_out = <<>>
    /\ \E pattern_a \in LongPatternsA, pattern_b \in LongPatternsB,
          n_a, n_b \in LongLengths :
          \E s2 \in {AfterUpload(NoUploads, DiffFile(NameOld, LongPages(pattern_a, n_a)),
                                 CompareA, "none", <<>>)} :
             \E s3 \in {AfterUpload(s2, DiffFile(NameNew, LongPages(pattern_b, n_b)),
                                    CompareB, "none", <<>>)} :
                /\ store = s3.store
                /\ compare_store = s3.compare_store
                /\ section_cache = s3.section_cache
                /\ saved_files = s3.saved_files
                /\ uuid_count = s3.uuid_count
                /\ upload_log = s3.upload_log
                /\ in_flight = NoneInFlight
    /\ cosine \in Geometries

SpecDiffLong == InitDiffLong /\ [][Compare]_vars

-----------------------------------------------------------------------------
(* Properties of the answerer *)

\* the request has ended after the generator was invoked
Generated == pc = "done" /\ llm_calls = 1

\* the text field of a result
TextOf(r) == IF req.op = "answer_question" THEN r.answer ELSE r.outcome

\* the level the thresholds 0.75 and 0.50 give a score
LevelOf(score) ==
    IF score >= 750000 THEN "High" ELSE IF score >= 500000 THEN "Medium" ELSE "Low"

\* one citation per doc of a list without repeated chunk_ids
CitationsOf(docs) ==
    [i \in 1..Len(docs) |->
        [page |-> docs[i].page, excerpt |-> ExcerptOf[docs[i]]]]

\* C1: when retrieval yields no chunk, answer_question (any label) and
\* analyze_scenario return the fixed gap result (gap_detected, no sources, confidence
\* Low, a non-empty suggestion) and the generator is not invoked for that request.
EmptyRetrievalIsGap ==
    /\ (pc = "done" /\ docs_with_scores = <<>>) =>
          /\ result.gap_detected = TRUE
          /\ result.sources = <<>>
          /\ result.confidence = "Low"
          /\ result.suggestion \notin {None, ""}
          /\ result.suggestion =
                IF req.op = "answer_question" THEN NoContentSuggestion
                ELSE NoPolicySuggestion
          /\ llm_calls = 0
    /\ (pc = "generate" \/ llm_calls > 0) => docs_with_scores # <<>>

WitnessEmptyRetrieval ==
    /\ pc = "done"
    /\ req.op = "answer_question"
    /\ req.query_label = "numeric_lookup"
    /\ table_docs = <<>>
    /\ scored = <<>>
    /\ result.gap_detected

\* C2: with at least one chunk retrieved, a generator output equal to the operation's
\* refusal sentinel gives gap_detected, confidence Low, no sources and the fixed gap
\* suggestion, whatever confidence the scores gave.
ExactSentinelIsGap ==
    (Generated /\ answer = (IF req.op = "answer_question"
                            THEN REFUSAL_TEXT ELSE SCENARIO_REFUSAL_TEXT)) =>
        /\ result.gap_detected = TRUE
        /\ result.confidence = "Low"
        /\ result.sources = <<>>
        /\ result.suggestion = _GAP_SUGGESTION

WitnessSentinelAtHigh ==
    /\ Generated
    /\ req.op = "answer_question"
    /\ answer = REFUSAL_TEXT
    /\ confidence = "High"
    /\ result.gap_detected

\* C3 as stated: the result is a gap result exactly when the trimmed output starts
\* with the whole refusal sentinel of the operation.
GapIffFullSentinel ==
    Generated =>
        (result.gap_detected <=>
            startswith(strip(answer), IF req.op = "answer_question"
                                      THEN REFUSAL_TEXT ELSE SCENARIO_REFUSAL_TEXT))

\* C3 amended: the result is a gap result exactly when the trimmed output starts with
\* the first 40 characters of REFUSAL_TEXT (answer_question) or the first 50 characters
\* of SCENARIO_REFUSAL_TEXT (analyze_scenario); every other output gives
\* gap_detected = false, the trimmed output as the text, the confidence of the top
\* retrieval score and one citation per retrieved chunk.
GapIffSentinelSlice ==
    Generated =>
        LET slice == IF req.op = "answer_question"
                     THEN SubSeq(REFUSAL_TEXT, 1, 40)
                     ELSE SubSeq(SCENARIO_REFUSAL_TEXT, 1, 50)
            docs == DocsOf(docs_with_scores)
            top == MaxOf([i \in 1..Len(docs_with_scores) |-> docs_with_scores[i].score])
        IN  /\ result.gap_detected <=> startswith(strip(answer), slice)
            /\ ~result.gap_detected =>
                  /\ TextOf(result) = strip(answer)
                  /\ result.confidence = LevelOf(top)
                  /\ result.sources = CitationsOf(docs)
                  /\ result.suggestion = None

WitnessSliceOnly ==
    /\ Generated
    /\ result.gap_detected
    /\ startswith(strip(answer), SubSeq(REFUSAL_TEXT, 1, 40))
    /\ ~startswith(strip(answer), REFUSAL_TEXT)

\* C4: two runs of an operation over the same retrieved scored chunks with two
\* different non-refusal outputs return the same sources and the same confidence, and
\* every citation is the page and excerpt of one retrieved chunk.
SourcesIgnoreOutput ==
    (Generated /\ prev # <<>> /\ ~result.gap_detected) =>
        /\ ~prev[1].result.gap_detected
        /\ result.sources = prev[1].result.sources
        /\ result.confidence = prev[1].result.confidence
        /\ \A n \in 1..Len(result.sources) :
              \E i \in 1..Len(docs_with_scores) :
                 /\ result.sources[n].page = docs_with_scores[i].doc.page
                 /\ result.sources[n].excerpt = ExcerptOf[docs_with_scores[i].doc]

WitnessTwoOutputs ==
    /\ Generated
    /\ prev # <<>>
    /\ ~result.gap_detected
    /\ prev[1].answer = OutGrounded
    /\ answer = OutShortOfSlice
    /\ Len(result.sources) >= 2

\* C5: in a non-gap result, sources holds one citation per distinct chunk_id of the
\* retrieved chunks, at the place of that chunk_id's first occurrence: citation order
\* is retrieval order and len(sources) is the number of distinct chunk_ids.
OneCitationPerChunk ==
    (Generated /\ ~result.gap_detected) =>
        LET docs == DocsOf(docs_with_scores)
            IsFirst(i) == \A j \in 1..(i - 1) : docs[j].chunk_id # docs[i].chunk_id
            firsts == FilterSeq(IsFirst, [i \in 1..Len(docs) |-> i])
        IN  /\ Len(result.sources) = Cardinality({docs[i].chunk_id : i \in 1..Len(docs)})
            /\ Len(result.sources) = Len(firsts)
            /\ \A n \in 1..Len(firsts) :
                  result.sources[n] =
                      [page |-> docs[firsts[n]].page, excerpt |-> ExcerptOf[docs[firsts[n]]]]

WitnessSamePageChunks ==
    /\ Generated
    /\ ~result.gap_detected
    /\ Len(result.sources) >= 3
    /\ \E m, n \in 1..Len(result.sources) :
          m < n /\ result.sources[m].page = result.sources[n].page

NumericMergeOrder ==
    (pc \in {"generate", "done"} /\ req.op = "answer_question") =>
        LET dws == docs_with_scores
            n == Len(dws) - Len(scored)
            scored_ids == {scored[i].doc.chunk_id : i \in 1..Len(scored)}
            Pos(d) == CHOOSE i \in 1..Len(table_docs) : table_docs[i] = d
        IN  /\ n >= 0
            /\ SubSeq(dws, n + 1, Len(dws)) = scored
            /\ req.query_label # "numeric_lookup" => n = 0
            /\ \A i \in 1..n :
                  /\ dws[i].score = 900000
                  /\ \E j \in 1..Len(table_docs) : table_docs[j] = dws[i].doc
                  /\ dws[i].doc.chunk_id \notin scored_ids
            /\ \A i, j \in 1..n : i < j => Pos(dws[i].doc) < Pos(dws[j].doc)
            /\ req.query_label = "numeric_lookup" =>
                  \A j \in 1..Len(table_docs) :
                     table_docs[j].chunk_id \notin scored_ids =>
                        \E i \in 1..n : dws[i].doc = table_docs[j]
            /\ \A i, j \in 1..Len(dws) : i # j => dws[i].doc.chunk_id # dws[j].doc.chunk_id
            /\ dws # <<>> =>
                  context = [i \in 1..Len(dws) |->
                               [page |-> dws[i].doc.page,
                                text |-> StrippedOf[dws[i].doc]]]
            /\ (Generated /\ ~result.gap_detected) =>
                  result.sources = CitationsOf(DocsOf(dws))

WitnessTableMerged ==
    /\ Generated
    /\ req.op = "answer_question"
    /\ req.query_label = "numeric_lookup"
    /\ ~result.gap_detected
    /\ Len(docs_with_scores) = Len(scored) + 1
    /\ \E i \in 1..Len(scored) : scored[i].doc.is_table
    /\ Len(table_docs) = 2

-----------------------------------------------------------------------------
(* Properties of the classifier *)

Classified == question # <<>>

\* w occurs in q as a word, letters compared without case
OccursAsWord(q, w) ==
    \E i \in 1..(Len(q) - Len(w) + 1) :
        /\ lower(SubSeq(q, i, i + Len(w) - 1)) = w
        /\ i = 1 \/ q[i - 1] \notin WordChars
        /\ i + Len(w) - 1 = Len(q) \/ q[i + Len(w)] \notin WordChars

\* q starts with the characters of w, letters compared without case
StartsWithChars(q, w) == Len(w) <= Len(q) /\ lower(SubSeq(q, 1, Len(w))) = w

\* q starts with w and w ends at a word boundary
StartsWithWords(q, w) ==
    StartsWithChars(q, w) /\ (Len(q) = Len(w) \/ q[Len(w) + 1] \notin WordChars)

HowMuchMaximumLimit == {<<"h","o","w"," ","m","u","c","h">>, <<"m","a","x","i","m","u","m">>, <<"l","i","m","i","t">>}
WhatIfCanI == {<<"w","h","a","t"," ","i","f">>, <<"c","a","n"," ","i">>}

\* C8 as stated: every question that contains "how much", "maximum" or "limit" as a
\* word is classified numeric_lookup with top_k 4.
NumericWordsAlwaysNumeric ==
    (Classified /\ \E w \in HowMuchMaximumLimit : OccursAsWord(question, w)) =>
        qclass.label = "numeric_lookup" /\ qclass.top_k = 4

\* C8 amended: every question that contains "how much", "maximum" or "limit" as a word
\* (any letter case) and in which no policy-gap, scenario or summary pattern matches
\* is classified numeric_lookup with top_k 4.
NumericWordsWhenNoEarlierGroup ==
    (/\ Classified
     /\ \E w \in HowMuchMaximumLimit : OccursAsWord(question, w)
     /\ ~GapSearch(question)
     /\ ~ScenarioSearch(question)
     /\ ~SummarySearch(question)) =>
        qclass.label = "numeric_lookup" /\ qclass.top_k = 4

WitnessUpperCaseMaximum ==
    /\ Classified
    /\ OccursAsWord(question, <<"m","a","x","i","m","u","m">>)
    /\ ~OccursAsWord(question, <<"l","i","m","i","t">>)
    /\ ~OccursAsWord(question, <<"h","o","w"," ","m","u","c","h">>)
    /\ Len(question) > 11
    /\ qclass.label = "numeric_lookup"

\* C9 as stated: every question that starts with "what if" or "can I" is classified
\* scenario_analysis with top_k 7.
WhatIfCanIAlwaysScenario ==
    (Classified /\ \E w \in WhatIfCanI : StartsWithChars(question, w)) =>
        qclass.label = "scenario_analysis" /\ qclass.top_k = 7

\* C9 amended: every question that starts with the words "what if" or "can I" (any
\* letter case, the phrase followed by a non-word character or the end) and in which
\* no policy-gap pattern matches is classified scenario_analysis with top_k 7,
\* whatever follows.
WhatIfCanIWhenNoGapPhrase ==
    (/\ Classified
     /\ \E w \in WhatIfCanI : StartsWithWords(question, w)
     /\ ~GapSearch(question)) =>
        qclass.label = "scenario_analysis" /\ qclass.top_k = 7

WitnessCanIWithLimit ==
    /\ Classified
    /\ StartsWithWords(question, <<"c","a","n"," ","i">>)
    /\ OccursAsWord(question, <<"l","i","m","i","t">>)
    /\ OccursAsWord(question, <<"s","u","m","m","a","r","i","z","e">>)
    /\ qclass.label = "scenario_analysis"

\* C10: classify_query returns the class of the first matching group in the order
\* policy_gap, scenario_analysis, summary_request, numeric_lookup, and factual_lookup
\* when none matches; top_k is fixed by the label (3, 7, 10, 4, 5).
FirstMatchingGroupWins ==
    Classified =>
        LET q == question
            first == IF GapSearch(q) THEN "policy_gap"
                     ELSE IF ScenarioSearch(q) THEN "scenario_analysis"
                     ELSE IF SummarySearch(q) THEN "summary_request"
                     ELSE IF NumericSearch(q) THEN "numeric_lookup"
                     ELSE "factual_lookup"
            width == [l \in Labels |->
                        CASE l = "policy_gap" -> 3
                          [] l = "scenario_analysis" -> 7
                          [] l = "summary_request" -> 10
                          [] l = "numeric_lookup" -> 4
                          [] l = "factual_lookup" -> 5]
        IN  /\ qclass.label = first
            /\ qclass.top_k = width[qclass.label]

WitnessAllGroupsMatch ==
    /\ Classified
    /\ GapSearch(question)
    /\ ScenarioSearch(question)
    /\ NumericSearch(question)
    /\ qclass.label = "policy_gap"
    /\ qclass.top_k = 3

-----------------------------------------------------------------------------
(* Properties of chunking *)

\* the chunk_ids of a list of chunks, in order
IdsOf(out) == [k \in 1..Len(out) |-> out[k].metadata.chunk_id]

\* number of pieces cut from the documents before document d
RECURSIVE PiecesBefore(_)
PiecesBefore(d) == IF d = 1 THEN 0 ELSE PiecesBefore(d - 1) + Len(pieces[d - 1])

-----------------------------------------------------------------------------
(* Properties of the upload operation *)

\* the uploads that were answered with success
Succeeded(u) == u.response.status = 200

\* C12: re-ingestion is idempotent: uploading the same file a second time into the
\* same collection overwrites the chunks of the first upload and does not increase
\* the number of chunks stored in that collection.
ReuploadKeepsChunkCount ==
    \A i \in 1..(Len(upload_log) - 1) :
        LET first == upload_log[i]
            second == upload_log[i + 1]
        IN  (/\ Succeeded(first)
             /\ Succeeded(second)
             /\ second.filename = first.filename
             /\ second.collection_name = first.collection_name)
                => second.stored = first.stored



\* the detail of the rejection of an empty document
EmptyDocumentMessage == SubSeq(DetailEmptyDocument, 6, Len(DetailEmptyDocument))

\* the uploads of a file that was saved and loaded to zero documents
LoadedEmpty(u) ==
    /\ u.filename = FileEmpty.filename
    /\ u.fault \notin {"save", "load"}

\* C26: an upload whose file loads to zero documents is rejected with HTTP 400 and
\* the detail "Document could not be parsed or is empty.", not with a 500.
EmptyDocumentIsBadRequest ==
    \A i \in 1..Len(upload_log) :
        LoadedEmpty(upload_log[i]) =>
            upload_log[i].response = ErrorResponse(400, EmptyDocumentMessage)

\* what the handler does with an empty document: the 400 is wrapped into a 500, and
\* the collection holds what it held before
EmptyDocumentIsProcessingFailure ==
    \A i \in 1..Len(upload_log) :
        LoadedEmpty(upload_log[i]) =>
            /\ upload_log[i].response =
                   ErrorResponse(500, DetailProcessingFailed \o DetailEmptyDocument)
            /\ i = 1 => upload_log[i].stored = 0
            /\ section_cache # <<>> =>
                  \E j \in 1..Len(upload_log) : j # i /\ upload_log[j].response.status = 200

-----------------------------------------------------------------------------
(* Properties of the comparison *)

\* the comparison has answered 200 with a DiffResult
Compared == cmp_out # <<>> /\ cmp_out[1].status = 200

\* the comparison collection a stripped name of the request denotes
ComparedChunks(name) == CollectionChunks(strip(name), cmp_req[1].default_order)

\* the texts of a list of chunks
TextsOf(docs) == [k \in 1..Len(docs) |-> docs[k].page_content]

\* the chunk ids of a list of chunks
ChunkIdsOf(docs) == {docs[k].chunk_id : k \in 1..Len(docs)}

\* C13: compare_documents on two non-empty collections whose chunks are
\* content-identical (the same texts under different chunk ids) returns no added
\* and no removed entry, common_count equal to the number of chunks of A, and the
\* summary that the documents are semantically identical.
IdenticalContentIsCommon ==
    (/\ Compared
     /\ TextsOf(ComparedChunks(cmp_req[1].collection_a))
           = TextsOf(ComparedChunks(cmp_req[1].collection_b)))
    => /\ cmp_out[1].body[1].added_in_b = <<>>
       /\ cmp_out[1].body[1].removed_in_b = <<>>
       /\ cmp_out[1].body[1].common_count
             = Len(ComparedChunks(cmp_req[1].collection_a))
       /\ cmp_out[1].body[1].summary = SummaryIdentical

\* two chunks with different texts on each side, the same texts under other ids, and
\* the two texts not similar to each other
WitnessSameTextsOtherIds ==
    /\ Compared
    /\ TextsOf(compare_store[CompareA]) = TextsOf(compare_store[CompareB])
    /\ Len(compare_store[CompareA]) = 2
    /\ compare_store[CompareA][1].page_content # compare_store[CompareA][2].page_content
    /\ ChunkIdsOf(compare_store[CompareA]) \cap ChunkIdsOf(compare_store[CompareB]) = {}
    /\ cosine[<<compare_store[CompareA][1].page_content,
                compare_store[CompareA][2].page_content>>] < SIMILARITY_THRESHOLD
    /\ cmp_req[1].collection_a = CompareA
    /\ cmp_req[1].collection_b = CompareB


\* the best-match scores of the chunks of own against others
BestMatches(own, others) ==
    [k \in 1..Len(own) |-> BestMatch(own[k].page_content, others, cosine)]

\* the entries of the chunks of own whose best match is strictly below 0.70
EntriesBelow(own, others) ==
    LET Keep(k) == BestMatches(own, others)[k] < SIMILARITY_THRESHOLD
        F[k \in 0..Len(own)] ==
            IF k = 0 THEN <<>>
            ELSE IF Keep(k)
                 THEN Append(F[k - 1], DiffEntry(own[k], BestMatches(own, others)[k]))
                 ELSE F[k - 1]
    IN  F[Len(own)]

\* C14: a chunk of A is on removed_in_b iff its largest similarity over the chunks of
\* B is strictly below 0.70, a chunk of B is on added_in_b iff its largest similarity
\* over the chunks of A is strictly below 0.70 (a best match of exactly 0.70 is
\* common), and common_count is the number of chunks of A that are not removed,
\* whatever the pass over B finds.
ThresholdClassifiesBothSides ==
    Compared =>
        LET chunks_a == ComparedChunks(cmp_req[1].collection_a)
            chunks_b == ComparedChunks(cmp_req[1].collection_b)
            body == cmp_out[1].body[1]
        IN  /\ body.removed_in_b = EntriesBelow(chunks_a, chunks_b)
            /\ body.added_in_b = EntriesBelow(chunks_b, chunks_a)
            /\ body.common_count
                  = Cardinality({k \in 1..Len(chunks_a) :
                                    BestMatches(chunks_a, chunks_b)[k]
                                        >= SIMILARITY_THRESHOLD})
            /\ body.common_count + Len(body.removed_in_b) = Len(chunks_a)

\* A holds a chunk whose best match is exactly 0.70 and one whose best match is just
\* below it, while every chunk of B has a close match in A
WitnessBestMatchAtThreshold ==
    /\ Compared
    /\ cmp_req[1].collection_a = CompareA
    /\ cmp_req[1].collection_b = CompareB
    /\ Len(compare_store[CompareA]) = 2
    /\ BestMatches(compare_store[CompareA], compare_store[CompareB])[1]
          = SIMILARITY_THRESHOLD
    /\ BestMatches(compare_store[CompareA], compare_store[CompareB])[2]
          = SIMILARITY_THRESHOLD - 1
    /\ cmp_out[1].body[1].common_count = 1
    /\ Len(cmp_out[1].body[1].removed_in_b) = 1
    /\ cmp_out[1].body[1].added_in_b = <<>>


\* the request named two different collections, so compare_documents was called
CompareCalled ==
    /\ cmp_out # <<>>
    /\ strip(cmp_req[1].collection_a) # strip(cmp_req[1].collection_b)

\* the request ended without a hard failure
CompareReturned == CompareCalled /\ cmp_out[1].status # 500

\* the index raised while the chunks of a collection were fetched
FetchFailed == CompareCalled /\ cmp_req[1].fault \in {"open_a", "get_a", "open_b", "get_b"}

\* the error outcome with the given message: no embedding call, no DiffResult
IsErrorOutcome(message) ==
    /\ cmp_out[1].status = 404
    /\ cmp_out[1].detail = message
    /\ cmp_out[1].embed_calls = 0
    /\ cmp_out[1].body = <<>>

\* C15: compare_documents reports three distinct errors before any embedding call:
\* both collections empty ("Neither document was found..."), only A empty (the
\* message naming Document A and collection_a), only B empty (the message naming
\* Document B and collection_b); an error carries no diff fields, and a diff is
\* returned only when both collections are non-empty.
ErrorNamesTheEmptySide ==
    CompareReturned =>
        LET chunks_a == ComparedChunks(cmp_req[1].collection_a)
            chunks_b == ComparedChunks(cmp_req[1].collection_b)
        IN  /\ (chunks_a = <<>> /\ chunks_b = <<>>) => IsErrorOutcome(ErrorNeither)
            /\ (chunks_a = <<>> /\ chunks_b # <<>>) =>
                  IsErrorOutcome(ErrorNoContentA \o strip(cmp_req[1].collection_a)
                                     \o ErrorNoContentEnd)
            /\ (chunks_a # <<>> /\ chunks_b = <<>>) =>
                  IsErrorOutcome(ErrorNoContentB \o strip(cmp_req[1].collection_b)
                                     \o ErrorNoContentEnd)
            /\ cmp_out[1].status = 200 => (chunks_a # <<>> /\ chunks_b # <<>>)

\* the same when the index answers both fetches
ErrorNamesTheEmptySideUnlessFetchFailed == FetchFailed \/ ErrorNamesTheEmptySide

\* C16: a comparison never runs over the default collection: in no compare request
\* is a side whose chunks are fetched and diffed the collection "policy_docs", so
\* no chunk of the default collection appears in a DiffResult.
DefaultCollectionNeverCompared ==
    (cmp_out # <<>> /\ cmp_out[1].index_calls > 0) =>
        /\ strip(cmp_req[1].collection_a) # COLLECTION_NAME
        /\ strip(cmp_req[1].collection_b) # COLLECTION_NAME

\* C20: when the vector index raises while compare_documents fetches the chunks of
\* a collection, the request ends as a generic processing failure (500), not as a
\* NotFound result, and no failed index or embedder call is made again.
FetchFailureIsProcessingFailure ==
    /\ FetchFailed => cmp_out[1].status = 500
    /\ cmp_out # <<>> => (cmp_out[1].index_calls <= 2 /\ cmp_out[1].embed_calls <= 2)


-----------------------------------------------------------------------------
(* Properties of section detection and summarization *)

\* some line of the documents is classified as a heading
HasHeading(docs) ==
    \E d \in 1..Len(docs) :
       \E i \in 1..Len(splitlines(docs[d].page_content)) :
          _is_heading(splitlines(docs[d].page_content)[i])

\* some line of the documents is neither blank nor a heading
HasProse(docs) ==
    \E d \in 1..Len(docs) :
       \E i \in 1..Len(splitlines(docs[d].page_content)) :
          /\ strip(splitlines(docs[d].page_content)[i]) # <<>>
          /\ ~_is_heading(splitlines(docs[d].page_content)[i])

\* C17: detect_sections on a document in which no line is classified as a heading
\* returns exactly one section, named "Document Overview", whose text is the whole
\* document and whose pages are the first and the last page; documents of ordinary
\* prose lines only are included.
NoHeadingIsDocumentOverview ==
    (sections # <<>> /\ s_docs # <<>> /\ ~HasHeading(s_docs)) =>
        sections[1] =
            <<[section_name |-> OverviewName,
               text |-> join([d \in 1..Len(s_docs) |-> s_docs[d].page_content]),
               start_page |-> SectionPage(s_docs[1]),
               end_page |-> SectionPage(s_docs[Len(s_docs)])]>>

\* the same for the documents without a line of prose
NoHeadingNoProseIsDocumentOverview ==
    HasProse(s_docs) \/ NoHeadingIsDocumentOverview

\* the sections summarize_sections does not skip, in order
Summarizable(secs) ==
    LET F[k \in 0..Len(secs)] ==
            IF k = 0 THEN <<>>
            ELSE IF Len(strip(secs[k].text)) >= MinSummaryLen
                 THEN Append(F[k - 1], secs[k])
                 ELSE F[k - 1]
    IN  F[Len(secs)]

\* C18: summarize_sections handles each section on its own and in order: a section
\* whose trimmed text is shorter than 50 characters gives no entry and no generator
\* call; every other section gives exactly one entry, with the summary "Summary
\* unavailable." when the generator fails for it; a failure changes no other entry
\* and does not end the batch.
SectionsSummarizedIndependently ==
    summarized # <<>> =>
        LET kept == Summarizable(sections[1])
            made == summarized[1].result
        IN  /\ Len(made) = Len(kept)
            /\ Len(summarized[1].prompts) = Len(kept)
            /\ \A n \in 1..Len(kept) :
                  /\ n <= Len(made)
                  /\ made[n].section_name = kept[n].section_name
                  /\ made[n].start_page = kept[n].start_page
                  /\ made[n].end_page = kept[n].end_page
                  /\ made[n].page_range = page_range(kept[n])
                  /\ made[n].summary =
                        IF llm_outcomes[n].raises THEN SummaryUnavailable
                        ELSE strip(llm_outcomes[n].text)
                  /\ summarized[1].prompts[n] = strip(kept[n].text)

\* a skipped section, then a section the generator fails for, then one it summarizes
WitnessFailureThenSummary ==
    /\ summarized # <<>>
    /\ Len(sections[1]) = 3
    /\ Len(strip(sections[1][1].text)) < MinSummaryLen
    /\ Len(summarized[1].result) = 2
    /\ llm_outcomes[1].raises
    /\ ~llm_outcomes[2].raises
    /\ summarized[1].result[1].summary = SummaryUnavailable
    /\ summarized[1].result[2].summary # SummaryUnavailable


\* the steps of table extraction and of section detection that can fail
TableFaults == {"pdfplumber_missing", "extract_tables", "index_tables"}
SectionFaults == {"detect_sections", "get_llm", "cache_sections"}

\* the files load_document reads documents from
Loadable == {FileHandbook.filename, FileNotes.filename}

\* C19: in an upload to the default collection, a failure in any step of table
\* extraction (indexing the table chunks included) or of section detection,
\* summarization or caching does not fail the upload: it answers 200 with
\* chunks_ingested set, and the count of the failed feature is 0.
FeatureFailureKeepsUpload ==
    \A k \in 1..Len(upload_log) :
       LET u == upload_log[k]
       IN  (/\ u.collection_name = COLLECTION_NAME
            /\ u.filename \in Loadable
            /\ u.fault \in TableFaults \cup SectionFaults)
           => /\ u.response.status = 200
              /\ u.response.body[1].chunks_ingested >= 1
              /\ u.fault \in TableFaults => u.response.body[1].tables_ingested = 0
              /\ u.fault \in SectionFaults => u.response.body[1].sections_detected = 0

\* the same for every failure but that of indexing the table chunks
FeatureFailureKeepsUploadUnlessIndexing ==
    \A k \in 1..Len(upload_log) :
       LET u == upload_log[k]
       IN  (/\ u.collection_name = COLLECTION_NAME
            /\ u.filename \in Loadable
            /\ u.fault \in (TableFaults \cup SectionFaults) \ {"index_tables"})
           => /\ u.response.status = 200
              /\ u.response.body[1].chunks_ingested >= 1
              /\ u.fault \in TableFaults => u.response.body[1].tables_ingested = 0
              /\ u.fault \in SectionFaults => u.response.body[1].sections_detected = 0


-----------------------------------------------------------------------------
(* Properties of the returned result *)

\* the docs the numeric merge put first with the injected score
Injected == SubSeq(docs_with_scores, 1, Len(docs_with_scores) - Len(scored))

\* a numeric_lookup answer was generated from a list with an injected table chunk
NumericAnswerWithInjectedTable ==
    /\ Generated
    /\ req.op = "answer_question"
    /\ req.query_label = "numeric_lookup"
    /\ \E i \in 1..Len(Injected) : Injected[i].doc.is_table /\ Injected[i].score = TableScore
    /\ ~result.gap_detected

\* C25: a numeric_lookup answer with at least one table chunk injected at 0.9 and no
\* refusal has confidence High whatever the real scores are: the injected score is
\* compared with the thresholds like a real score.
InjectedTableGivesHigh ==
    NumericAnswerWithInjectedTable =>
        /\ result.confidence = "High"
        /\ result.confidence =
              LevelOf(MaxOf([i \in 1..Len(docs_with_scores) |->
                                docs_with_scores[i].score]))

\* every real score is below 0.50 and the answer is still High
WitnessHighOverLowScores ==
    /\ NumericAnswerWithInjectedTable
    /\ scored # <<>>
    /\ \A i \in 1..Len(scored) : scored[i].score < MediumThreshold
    /\ result.confidence = "High"

\* C27: every result of answer_question and analyze_scenario is well formed:
\* gap_detected holds iff sources is empty iff a suggestion is present; a gap has
\* confidence Low; a result without gap cites at least one chunk and carries the
\* confidence computed from the retrieval scores.
ResultWellFormed ==
    pc = "done" =>
        /\ result.gap_detected <=> result.sources = <<>>
        /\ result.gap_detected <=> result.suggestion \notin {None}
        /\ result.gap_detected => result.confidence = "Low"
        /\ ~result.gap_detected =>
              /\ Len(result.sources) >= 1
              /\ result.confidence = compute_confidence(docs_with_scores)
              /\ result.confidence = confidence

\* a scenario refused over chunks retrieved with a high score
WitnessScenarioRefusedAtHigh ==
    /\ Generated
    /\ req.op = "analyze_scenario"
    /\ result.gap_detected
    /\ docs_with_scores # <<>>
    /\ confidence = "High"
    /\ result.confidence = "Low"
    /\ result.sources = <<>>


-----------------------------------------------------------------------------
(* Properties of the lists of a comparison *)

\* the first DiffListMax entries of a list, all of them when it has fewer
UpToMax(entries) ==
    [k \in 1..Min(Len(entries), DiffListMax) |-> entries[k]]

\* C23: in a successful comparison added_in_b and removed_in_b each hold at most 20
\* entries, and they are the first (up to 20) chunks so classified, in the order in
\* which their own collection is iterated.
ListsHoldFirstTwenty ==
    Compared =>
        LET chunks_a == ComparedChunks(cmp_req[1].collection_a)
            chunks_b == ComparedChunks(cmp_req[1].collection_b)
        IN  /\ Len(cmp_out[1].body[1].added_in_b) <= DiffListMax
            /\ Len(cmp_out[1].body[1].removed_in_b) <= DiffListMax
            /\ cmp_out[1].body[1].removed_in_b = UpToMax(EntriesBelow(chunks_a, chunks_b))
            /\ cmp_out[1].body[1].added_in_b = UpToMax(EntriesBelow(chunks_b, chunks_a))

\* 21 chunks of A are removed, the one between them on page 2 is common, and one
\* chunk of B is added
WitnessMoreThanTwentyRemoved ==
    /\ Compared
    /\ cmp_req[1].collection_a = CompareA
    /\ cmp_req[1].collection_b = CompareB
    /\ Len(EntriesBelow(compare_store[CompareA], compare_store[CompareB])) > DiffListMax
    /\ Len(cmp_out[1].body[1].removed_in_b) = DiffListMax
    /\ cmp_out[1].body[1].removed_in_b[DiffListMax].page = DiffListMax + 1
    /\ cmp_out[1].body[1].common_count = 1
    /\ Len(cmp_out[1].body[1].added_in_b) = 1


-----------------------------------------------------------------------------
(* Properties of requests served while documents are uploaded *)

\* the retrieval of a numeric_lookup question is complete
NumericRetrieved ==
    /\ pc \in {"generate", "done"}
    /\ req.op = "answer_question"
    /\ req.query_label = "numeric_lookup"

\* C24: in answer_question with numeric_lookup every chunk that receives the injected
\* score 0.9 is a table chunk, also when search_tables falls back to the unfiltered
\* search and when an upload changes the index between the two searches.
InjectedAreTables ==
    NumericRetrieved =>
        \A i \in 1..Len(Injected) : Injected[i].doc.is_table

\* what holds of the injected chunks: each came from the table search and is not
\* among the chunks of the scored search
InjectedAreUnscoredTableDocs ==
    NumericRetrieved =>
        \A i \in 1..Len(Injected) :
            /\ Injected[i].score = TableScore
            /\ \E k \in 1..Len(table_docs) : table_docs[k] = Injected[i].doc
            /\ \A k \in 1..Len(scored) : scored[k].doc.chunk_id # Injected[i].doc.chunk_id


\* the chunk c carries the file id of the upload u
WrittenBy(c, u) == u.file_id # <<>> /\ startswith(c.chunk_id, u.file_id \o <<"_">>)

\* the chunk c was written by an upload, and only by uploads that named the collection
OwnedBy(c, name) ==
    /\ \E i \in 1..Len(upload_log) : WrittenBy(c, upload_log[i])
    /\ \A i \in 1..Len(upload_log) :
          WrittenBy(c, upload_log[i]) => upload_log[i].collection_name = name

\* every stored chunk belongs to an upload into its collection, the comparison
\* collections hold no table chunk, and every cached file is that of an upload into
\* the default collection
CollectionsHoldOwnUploads ==
    /\ \A c \in store : OwnedBy(c, COLLECTION_NAME)
    /\ \A name \in OtherCollections : \A k \in 1..Len(compare_store[name]) :
          /\ OwnedBy(compare_store[name][k], name)
          /\ ~compare_store[name][k].is_table
    /\ \A id \in DOMAIN section_cache :
          \E i \in 1..Len(upload_log) :
             /\ upload_log[i].file_id = id
             /\ upload_log[i].collection_name = COLLECTION_NAME

\* the chunks a request has retrieved so far
RetrievedChunks ==
    {table_docs[k] : k \in 1..Len(table_docs)}
        \cup {scored[k].doc : k \in 1..Len(scored)}
        \cup {docs_with_scores[k].doc : k \in 1..Len(docs_with_scores)}

\* what ask and analyze_scenario retrieve is stored in the default collection and in
\* no comparison collection
ReadsOnlyDefault ==
    \A d \in RetrievedChunks :
        /\ d \in store
        /\ \A name \in OtherCollections : \A k \in 1..Len(compare_store[name]) :
              compare_store[name][k].chunk_id # d.chunk_id

\* a step that serves an upload changes no collection but the one it names, and
\* the section cache only when it names the default collection
UploadFrame ==
    upload_log' # upload_log =>
        LET named == upload_log'[Len(upload_log')].collection_name
        IN  /\ \A name \in OtherCollections \ {named} :
                  compare_store'[name] = compare_store[name]
            /\ named # COLLECTION_NAME =>
                  store' = store /\ section_cache' = section_cache

\* C21: collections never mix: every chunk stored in a collection was written by an
\* upload that named exactly that collection; an upload into a collection leaves
\* every other collection unchanged; an upload into a comparison collection adds no
\* table chunk and writes no section cache entry; ask and analyze_scenario read only
\* the default collection.
CollectionsNeverMix ==
    /\ [](CollectionsHoldOwnUploads /\ ReadsOnlyDefault)
    /\ [][UploadFrame]_vars

\* the same PDF with a table is in the default collection and in a comparison
\* collection, all four uploads are done, and a request has retrieved chunks
WitnessSameFileInTwoCollections ==
    /\ Len(upload_log) = Cardinality(MixJobs)
    /\ \E c \in store : c.is_table
    /\ \E c \in store : \E k \in 1..Len(compare_store[CompareA]) :
          /\ compare_store[CompareA][k].page_content = c.page_content
          /\ compare_store[CompareA][k].chunk_id # c.chunk_id
    /\ compare_store[CompareB] # <<>>
    /\ section_cache # <<>>
    /\ pc = "generate"
    /\ scored # <<>>


-----------------------------------------------------------------------------
(* Properties of concurrent uploads *)

\* every worker has served its upload
AllResponded == \A u \in Uploaders : in_flight[u] # <<>> /\ in_flight[u][1].step = "done"

\* the index and the cache after the uploads of the workers are served one after
\* another in the given order, each completing before the next begins
RECURSIVE OneAfterAnother(_, _)
OneAfterAnother(st, order) ==
    IF order = <<>> THEN st
    ELSE OneAfterAnother(Written(st, Doing(Head(order)),
                                 in_flight[Head(order)][1].file.filename,
                                 in_flight[Head(order)][1].collection_name,
                                 in_flight[Head(order)][1].fault),
                         Tail(order))

\* the final index and cache are those of some sequential order
SameAsSomeOrder ==
    \E order \in Perms(Uploaders) :
        \E final \in {OneAfterAnother(NoUploads, order)} :
            /\ store = final.store
            /\ compare_store = final.compare_store
            /\ section_cache = final.section_cache

\* no chunk_id is stored twice in a collection
ChunkIdsStoredOnce ==
    /\ \A c1, c2 \in store : c1.chunk_id = c2.chunk_id => c1 = c2
    /\ \A name \in OtherCollections : \A i, j \in 1..Len(compare_store[name]) :
          compare_store[name][i].chunk_id = compare_store[name][j].chunk_id => i = j

\* the chunks of a collection
CollectionSet(name) ==
    IF name = COLLECTION_NAME THEN store
    ELSE {compare_store[name][k] : k \in 1..Len(compare_store[name])}

\* every chunk and every cache file an upload wrote is there as written
NothingLost ==
    \A u \in Uploaders :
        \E does \in {Doing(u)} :
            /\ \A k \in 1..Len(does.indexed) :
                  does.indexed[k] \in
                      CollectionSet(in_flight[u][1].collection_name)
            /\ does.cached # <<>> =>
                  /\ does.file_id \in DOMAIN section_cache
                  /\ section_cache[does.file_id] = does.cached[1]

\* C22: for every interleaving of the steps of two concurrent uploads the final
\* index and section cache equal those of running the uploads one after another in
\* some order: each chunk_id is stored once, each upload has its own cache file with
\* its own sections, and nothing an upload wrote is lost or overwritten.
ConcurrentUploadsAreSerializable ==
    AllResponded =>
        /\ SameAsSomeOrder
        /\ ChunkIdsStoredOnce
        /\ NothingLost
        /\ \A id \in DOMAIN section_cache :
              Cardinality({u \in Uploaders : Doing(u).file_id = id}) = 1

\* two uploads into the default collection, both with tables and sections, whose
\* index steps alternated: the second to begin responded first
WitnessInterleavedUploads ==
    /\ AllResponded
    /\ \A u \in Uploaders :
          /\ in_flight[u][1].collection_name = COLLECTION_NAME
          /\ in_flight[u][1].file = FileRates
          /\ Doing(u).cached # <<>>
    /\ Cardinality(store) = 4
    /\ Cardinality(DOMAIN section_cache) = 2
    /\ upload_log[1].file_id = uuid4(2)

====
